---- MODULE Spec2Model ----
(***************************************************************************)
(* Model of the VNC viewer's session lifecycle and framebuffer engine       *)
(* (src/src/app/vnc_handler.rs, src/src/app/mod.rs, src/src/app/ui.rs).      *)
(*                                                                           *)
(* The owning (UI) thread runs eframe's update() once per frame:             *)
(*   handle_vnc_events  (pc = "poll", then pc = "drain", one step per        *)
(*                       poll_event call)                                    *)
(*   the widgets        (pc = "ui": the Connect button may be clicked)       *)
(* A background worker per connect() call performs the TCP connect and the   *)
(* handshake and sends one outcome on its channel.  The server side of a     *)
(* session (the vnc crate's event thread) appends events to the session's    *)
(* event channel at any time.                                                *)
(***************************************************************************)
EXTENDS Integers, Sequences, FiniteSets, TLC

\* ------------------------------------------------------------------ bounds

\* largest screen side and rectangle coordinate of the CopyPixels inputs
MaxSide == 3
\* longest byte block of the PutPixels inputs
MaxBytes == 12

\* connect() calls in one run
MaxConnects == 2
\* protocol events the server delivers in one run
MaxEvents == 3

\* ------------------------------------------------------------------ values

\* u16 arithmetic is modulo 2^16
U16 == 2 ^ 16

Black == <<0, 0, 0>>

Rect(l, t, w, h) == [left |-> l, top |-> t, width |-> w, height |-> h]

\* the pixel format the sessions of the lifecycle model report (vnc.format()):
\* one byte per pixel, one bit per channel
Fmt3 ==
    [bits_per_pixel |-> 8, big_endian |-> FALSE,
     red_max |-> 1, green_max |-> 1, blue_max |-> 1,
     red_shift |-> 2, green_shift |-> 1, blue_shift |-> 0]

\* 16 bits per pixel, big endian, 5-6-5
Fmt565 ==
    [bits_per_pixel |-> 16, big_endian |-> TRUE,
     red_max |-> 31, green_max |-> 63, blue_max |-> 31,
     red_shift |-> 11, green_shift |-> 5, blue_shift |-> 0]

\* 32 bits per pixel, little endian, 8-8-8
Fmt888 ==
    [bits_per_pixel |-> 32, big_endian |-> FALSE,
     red_max |-> 255, green_max |-> 255, blue_max |-> 255,
     red_shift |-> 16, green_shift |-> 8, blue_shift |-> 0]

\* 24 bits per pixel: a sample width update_pixels has no arm for
Fmt24 ==
    [bits_per_pixel |-> 24, big_endian |-> FALSE,
     red_max |-> 255, green_max |-> 255, blue_max |-> 255,
     red_shift |-> 16, green_shift |-> 8, blue_shift |-> 0]

\* a vnc::Client: which attempt made it, and what size() and format() report
Client(id, size, format) == [id |-> id, size |-> size, format |-> format]

\* Option::None for vnc_client / the local vnc, and for vnc_rx
NoClient == [id |-> 0]
NoRx == 0

\* ------------------------------------------------------------------ pixel decoding

RECURSIVE BitAnd(_, _)
BitAnd(a, b) ==
    IF a = 0 \/ b = 0 THEN 0
    ELSE (a % 2) * (b % 2) + 2 * BitAnd(a \div 2, b \div 2)

\* a u32 sample is held as its two 16-bit halves, val = hi * 2^16 + lo
U32(hi, lo) == [hi |-> hi, lo |-> lo]

\* the low 16 bits of val >> shift on u32; a shift of 32 or more wraps to
\* shift % 32 in a build without overflow checks (DecodePanics covers the
\* build with them)
Shr(val, shift) ==
    LET s == shift % 32
    IN  IF s >= 16 THEN val.hi \div (2 ^ (s - 16))
        ELSE (val.hi % (2 ^ s)) * (2 ^ (16 - s)) + val.lo \div (2 ^ s)

\* SampleAt that takes the first byte as the most significant one whatever
\* the declared byte order
SampleAtBigEndian(bytes, i, bpp, big_endian) ==
    CASE bpp = 1 -> U32(0, bytes[i + 1])
      [] bpp = 2 -> U32(0, bytes[i + 1] * 256 + bytes[i + 2])
      [] bpp = 4 -> U32(bytes[i + 1] * 256 + bytes[i + 2],
                        bytes[i + 3] * 256 + bytes[i + 4])
      [] OTHER -> U32(0, 0)

\* the sample at byte offset i (0-based) of a block, in the declared byte order
SampleAt(bytes, i, bpp, big_endian) ==
    CASE bpp = 1 -> U32(0, bytes[i + 1])
      [] bpp = 2 ->
            IF big_endian
            THEN U32(0, bytes[i + 1] * 256 + bytes[i + 2])
            ELSE U32(0, bytes[i + 2] * 256 + bytes[i + 1])
      [] bpp = 4 ->
            IF big_endian
            THEN U32(bytes[i + 1] * 256 + bytes[i + 2],
                     bytes[i + 3] * 256 + bytes[i + 4])
            ELSE U32(bytes[i + 4] * 256 + bytes[i + 3],
                     bytes[i + 2] * 256 + bytes[i + 1])
      [] OTHER -> U32(0, 0)

\* RawChannel without the mask
RawChannelNoMask(val, shift, max) == Shr(val, shift)

\* r_raw, g_raw, b_raw: (val >> shift) & max, max being a u16 widened to u32
RawChannel(val, shift, max) == BitAnd(Shr(val, shift), max)

\* Rescale that multiplies by 256 / (max + 1) instead of dividing by max
RescaleByShift(raw, max) ==
    IF max = 255 THEN raw % 256
    ELSE IF max > 0 THEN (raw * (256 \div (max + 1))) % 256
    ELSE 0

\* r, g, b: the raw channel rescaled to 0..255; "as u8" truncates
Rescale(raw, max) ==
    IF max = 255 THEN raw % 256
    ELSE IF max > 0 THEN ((raw * 255) \div max) % 256
    ELSE 0

\* one colour channel: extract, then rescale
DecodeChannel(val, shift, max) == Rescale(RawChannel(val, shift, max), max)

DecodeColor(val, format) ==
    << DecodeChannel(val, format.red_shift, format.red_max),
       DecodeChannel(val, format.green_shift, format.green_max),
       DecodeChannel(val, format.blue_shift, format.blue_max) >>

\* a shift amount of 32 or more aborts a build with overflow checks
DecodePanics(format, checks) ==
    checks /\ (format.red_shift >= 32 \/ format.green_shift >= 32
               \/ format.blue_shift >= 32)

\* ------------------------------------------------------------------ update_pixels

\* InRange that lets the index one past the end of the buffer through
InRangeInclusive(pixel_idx, len, i, bpp, nbytes) ==
    pixel_idx <= len /\ i + bpp <= nbytes

\* InRange that does not look at how many bytes are left in the block
InRangeNoLength(pixel_idx, len, i, bpp, nbytes) ==
    pixel_idx < len

\* the guard of the inner loop: the target index is in the buffer and a whole
\* sample is left in the block
InRange(pixel_idx, len, i, bpp, nbytes) ==
    pixel_idx < len /\ i + bpp <= nbytes

\* the inner loop over x of update_pixels for the row that starts at
\* row_start; acc = [panic, pixels, i] carries the buffer and the read offset.
\* Inside the guard the sample is read (pixels[i .. i + bpp - 1]), the channels
\* are shifted out and self.pixels[pixel_idx] is written: an index past the end
\* of either vector is a panic
RECURSIVE UpdateRow(_, _, _, _, _, _, _)
UpdateRow(acc, row_start, x, rect, bytes, format, checks) ==
    IF acc.panic # "none" \/ x >= rect.width THEN acc
    ELSE
      LET bpp == format.bits_per_pixel \div 8
          pixel_idx == row_start + x
          hit == InRange(pixel_idx, Len(acc.pixels), acc.i, bpp, Len(bytes))
          val == SampleAt(bytes, acc.i, bpp, format.big_endian)
          next ==
            IF ~hit THEN acc
            ELSE IF bpp \in {1, 2, 4} /\ acc.i + bpp > Len(bytes)
                 THEN [acc EXCEPT !.panic = "index out of bounds"]
            ELSE IF DecodePanics(format, checks)
                 THEN [acc EXCEPT !.panic = "shift overflow"]
            ELSE IF pixel_idx >= Len(acc.pixels)
                 THEN [acc EXCEPT !.panic = "index out of bounds"]
            ELSE [panic |-> "none",
                  pixels |-> [acc.pixels EXCEPT
                                ![pixel_idx + 1] = DecodeColor(val, format)],
                  i |-> acc.i + bpp]
      IN  UpdateRow(next, row_start, x + 1, rect, bytes, format, checks)

\* the outer loop over y; rect.top + y is a u16 sum: past 65535 it aborts a
\* build with overflow checks and wraps modulo 2^16 in one without
RECURSIVE UpdateRows(_, _, _, _, _, _, _)
UpdateRows(acc, y, sw, rect, bytes, format, checks) ==
    IF acc.panic # "none" \/ y >= rect.height THEN acc
    ELSE
      IF rect.top + y >= U16 /\ checks
      THEN [acc EXCEPT !.panic = "add overflow"]
      ELSE
        LET row == (rect.top + y) % U16
            row_start == row * sw + rect.left
        IN  UpdateRows(UpdateRow(acc, row_start, 0, rect, bytes, format, checks),
                       y + 1, sw, rect, bytes, format, checks)

\* update_pixels on buffer px of a screen sw wide: [panic, pixels, i]
UpdatePixels(px, sw, rect, bytes, format, checks) ==
    UpdateRows([panic |-> "none", pixels |-> px, i |-> 0],
               0, sw, rect, bytes, format, checks)

\* ------------------------------------------------------------------ copy_pixels

\* CopyRowAt of a copy that always goes from the top row down
CopyRowAtTopDown(k, src, dst) == k

\* the k-th row the loops of copy_pixels visit (k = 0 first)
CopyRowAt(k, src, dst) ==
    IF dst.top < src.top THEN k ELSE src.height - 1 - k

\* the loops of copy_pixels flattened: step n copies column n % width of the
\* (n \div width)-th visited row; an index past the buffer is a panic
RECURSIVE CopyLoop(_, _, _, _, _)
CopyLoop(acc, n, sw, src, dst) ==
    IF acc.panic \/ src.width = 0 \/ n >= src.width * src.height THEN acc
    ELSE
      LET y == CopyRowAt(n \div src.width, src, dst)
          x == n % src.width
          src_idx == (src.top + y) * sw + (src.left + x)
          dst_idx == (dst.top + y) * sw + (dst.left + x)
          next ==
            IF src_idx >= Len(acc.pixels) \/ dst_idx >= Len(acc.pixels)
            THEN [acc EXCEPT !.panic = TRUE]
            ELSE [acc EXCEPT !.pixels[dst_idx + 1] = acc.pixels[src_idx + 1]]
      IN  CopyLoop(next, n + 1, sw, src, dst)

\* copy_pixels on buffer px of a screen sw wide: [panic, pixels]
CopyPixels(px, sw, src, dst) ==
    CopyLoop([panic |-> FALSE, pixels |-> px], 0, sw, src, dst)

\* vec![Color32::BLACK; w * h]
BlackBuffer(w, h) == [k \in 1..(w * h) |-> Black]

\* ------------------------------------------------------------------ events and messages

\* vnc::client::Event, as returned by poll_event
EvDisconnected == [type |-> "Disconnected"]
EvResize(w, h) == [type |-> "Resize", w |-> w, h |-> h]
EvPutPixels(rect, bytes) == [type |-> "PutPixels", rect |-> rect, bytes |-> bytes]
EvCopyPixels(src, dst) == [type |-> "CopyPixels", src |-> src, dst |-> dst]
EvEndOfFrame == [type |-> "EndOfFrame"]
\* any other variant (Bell, Clipboard, SetCursor, ...): the `_ => {}` arm
EvOther == [type |-> "Bell"]

\* what one call of handle_vnc_events did, in program order
TEvent(e) == [k |-> "event", ev |-> e]
TSetEncodings(list, ok) == [k |-> "set_encodings", encs |-> list, ok |-> ok]
TRequestUpdate(w, h, incremental, ok) ==
    [k |-> "request_update", rect |-> Rect(0, 0, w, h),
     incremental |-> incremental, ok |-> ok]
TUpdateTexture == [k |-> "update_texture"]
\* what the widgets of the same update() call did after it: the part of the
\* screen that acted, and the messages written to the session
TWidget(part, name) == [k |-> "widget", part |-> part, name |-> name]
\* the call of handle_input, with what the frame offers it: where the pointer
\* hovers, the buttons held and the events of the frame
THandleInput(hover, buttons, events) ==
    [k |-> "widget", part |-> "handle_input", name |-> "handle_input",
     hover |-> hover, buttons |-> buttons, events |-> events]
TSendPointer(buttons, x, y, ok) ==
    [k |-> "send_pointer_event", buttons |-> buttons, x |-> x, y |-> y, ok |-> ok]
TSendKey(down, keysym, ok) ==
    [k |-> "send_key_event", down |-> down, keysym |-> keysym, ok |-> ok]
TRequestRepaint == [k |-> "request_repaint"]

\* the encoding list negotiated on connect
ConnectEncodings == <<"Zrle", "CopyRect", "Raw", "Cursor", "DesktopSize">>

\* Result<vnc::Client, String> in the channel of a connection attempt
NoOutcome == [k |-> "empty"]
OutcomeOk(c) == [k |-> "ok", client |-> c]
OutcomeErr(m) == [k |-> "err", msg |-> m]

ConnectErrorText == "Connect Error: connection refused"
InitErrorText == "VNC Init Error: authentication failed"
ConnectingText == "Connecting to host:port..."

\* Option<TextureHandle>: None, or the image last uploaded
NoTexture == [size |-> <<0, 0>>, pixels |-> <<>>]

\* a framebuffer (screen_size, pixels) as one value; NoFb is the one of
\* VncApp::default()
NoFb == [size |-> <<0, 0>>, pixels |-> <<>>]

\* the connect form of VncApp: host, port and password as typed (port as its
\* characters, password as its bytes) and the shared checkbox
Fields(host, port, password, shared) ==
    [host |-> host, port |-> port, password |-> password, shared |-> shared]

\* VncApp::default() without a saved configuration
DefaultFields == Fields("localhost", <<"5", "9", "0", "0">>, <<>>, TRUE)

\* a worker that was never spawned has captured nothing
NoFields == Fields("", <<>>, <<>>, FALSE)

Digits == <<"0", "1", "2", "3", "4", "5", "6", "7", "8", "9">>

RECURSIVE DigitsValue(_, _)
DigitsValue(chars, acc) ==
    IF chars = <<>> THEN acc
    ELSE DigitsValue(Tail(chars),
                     10 * acc + (CHOOSE d \in 0..9 : Digits[d + 1] = Head(chars)))

\* port_str.parse::<u16>().unwrap_or(5900): decimal digits after an optional
\* "+", a value that fits u16; anything else yields 5900
ParsePort(chars) ==
    LET body == IF chars # <<>> /\ Head(chars) = "+" THEN Tail(chars) ELSE chars
        ok == /\ body # <<>>
              /\ \A k \in DOMAIN body : \E d \in DOMAIN Digits : Digits[d] = body[k]
    IN  IF ok /\ DigitsValue(body, 0) < U16 THEN DigitsValue(body, 0) ELSE 5900

\* the password the authentication callback answers with: the first 8 bytes,
\* padded with zeros
Pw8(password) ==
    [k \in 1..8 |-> IF k <= Len(password) THEN password[k] ELSE 0]

\* the blocking calls of a worker with the arguments it passes
CallTcpConnect(host, port) ==
    [call |-> "TcpStream::connect", host |-> host, port |-> port]
CallHandshake(shared, pw) ==
    [call |-> "Client::from_tcp_stream", shared |-> shared, pw |-> pw]

\* ------------------------------------------------------------------ environment

\* what the user may type into the connect form
FieldValues ==
    { DefaultFields,
      Fields("10.0.0.7", <<"5", "9", "0", "1">>, <<1, 2, 3, 4, 5, 6, 7, 8, 9>>, FALSE),
      Fields("localhost", <<"x">>, <<7>>, TRUE) }

\* sizes a server reports in its ServerInit (vnc.size())
SessionSizes == {<<2, 1>>, <<0, 0>>}

\* events the server side of a session may deliver
ServerEvents ==
    { EvDisconnected, EvEndOfFrame, EvOther,
      EvResize(1, 2),
      EvPutPixels(Rect(1, 0, 1, 1), <<4>>),
      EvCopyPixels(Rect(1, 0, 1, 1), Rect(0, 0, 1, 1)) }

\* Option::None for last_pointer_pos
NoPos == <<>>

\* no pointer message written yet
NoSent == [id |-> 0]

\* the server at the other end of the session. A free server sends events
\* as it likes and nothing is recorded about it; a paced server answers each
\* update request it has received with one frame that ends in EndOfFrame, and
\* owed counts the requests it has received and not answered yet
FreeServer == [paced |-> FALSE]
PacedServer(n) == [paced |-> TRUE, owed |-> n]

\* the server after one more update request has reached it
Requested(srv) == IF srv.paced THEN PacedServer(srv.owed + 1) ELSE srv

\* the server of a session that has just been sent its first update request
FirstRequested(srv) == IF srv.paced THEN PacedServer(1) ELSE srv

\* ------------------------------------------------------------------ state

VARIABLES
    state,          \* AppState: "Connect" or "Viewing"
    vnc_client,     \* Option<vnc::Client>
    vnc_rx,         \* Option<Receiver>: the attempt whose receiver is held
    screen_size,    \* (u16, u16)
    pixels,         \* Vec<Color32>
    status_text,
    screen_texture, \* Option<TextureHandle>
    fields,         \* host, port, password, shared: the connect form
    view_only,      \* bool
    preferred_encoding, \* String
    allow_copyrect, \* bool
    last_pointer_pos,   \* Option<(u16, u16)>
    last_buttons,   \* u8
    last_sent,      \* the last pointer message written to a session, and to which
    pc,             \* where the UI thread is in update()
    vnc,            \* handle_vnc_events' local: the client taken out of vnc_client
    updated,        \* handle_vnc_events' local flag (FALSE outside the call)
    spawned,        \* workers spawned so far (one per connect() call)
    wpc,            \* each worker's position
    chan,           \* each attempt's channel content
    captured,       \* each worker's closure: the values moved into it
    used,           \* the blocking calls a running worker has made, with their arguments
    sent,           \* how many tx.send calls each worker made
    evq,            \* the held session's event channel
    delivered,      \* events delivered so far
    panic,          \* "none", or what aborted the process
    trace,          \* what the current handle_vnc_events call did so far
    start_fb,       \* framebuffer when the current call began to drain
    arrivals,       \* events that were in evq or arrived while the call drained
    server          \* the server's side of the session's update requests

vars ==
    << state, vnc_client, vnc_rx, screen_size, pixels, status_text,
       screen_texture, fields, view_only, preferred_encoding, allow_copyrect,
       last_pointer_pos, last_buttons, last_sent, pc, vnc, updated, spawned, wpc,
       chan, captured,
       used, sent, evq, delivered, panic, trace, start_fb, arrivals, server >>

\* the options of the viewing session and the input forwarder's throttle state
viewer ==
    << view_only, preferred_encoding, allow_copyrect, last_pointer_pos, last_buttons,
       last_sent >>

app ==
    << state, vnc_client, vnc_rx, screen_size, pixels, status_text, screen_texture,
       fields, viewer >>
workers == << spawned, wpc, chan, captured, used, sent >>

Workers == 1..MaxConnects

\* VncApp::default()
Init ==
    /\ state = "Connect"
    /\ vnc_client = NoClient
    /\ vnc_rx = NoRx
    /\ screen_size = <<0, 0>>
    /\ pixels = <<>>
    /\ status_text = "Ready"
    /\ screen_texture = NoTexture
    /\ fields = DefaultFields
    /\ view_only = FALSE
    /\ preferred_encoding = "ZRLE"
    /\ allow_copyrect = TRUE
    /\ last_pointer_pos = NoPos
    /\ last_buttons = 0
    /\ last_sent = NoSent
    /\ pc = "poll"
    /\ vnc = NoClient
    /\ updated = FALSE
    /\ spawned = 0
    /\ wpc = [i \in Workers |-> "unspawned"]
    /\ chan = [i \in Workers |-> NoOutcome]
    /\ captured = [i \in Workers |-> NoFields]
    /\ used = [i \in Workers |-> <<>>]
    /\ sent = [i \in Workers |-> 0]
    /\ evq = <<>>
    /\ delivered = 0
    /\ panic = "none"
    /\ trace = <<>>
    /\ start_fb = NoFb
    /\ arrivals = <<>>
    /\ server = FreeServer

\* ------------------------------------------------------------------ connect()

\* tx.send(outcome) in worker i: it reaches the channel while the receiver of
\* attempt i is still held; otherwise send fails and `let _ =` drops the error
Send(i, outcome) ==
    /\ chan' = IF vnc_rx = i THEN [chan EXCEPT ![i] = outcome] ELSE chan
    /\ sent' = [sent EXCEPT ![i] = @ + 1]

\* Connect that keeps the receiver of an attempt that is still pending
ConnectKeepsPending ==
    /\ panic = "none"
    /\ pc = "ui"
    /\ state = "Connect"
    /\ spawned < MaxConnects
    /\ spawned' = spawned + 1
    /\ vnc_rx' = IF vnc_rx # NoRx THEN vnc_rx ELSE spawned + 1
    /\ status_text' = ConnectingText
    /\ captured' = [captured EXCEPT ![spawned + 1] = fields]
    /\ wpc' = [wpc EXCEPT ![spawned + 1] = "running"]
    /\ pc' = "poll"
    /\ trace' = <<>>
    /\ arrivals' = <<>>
    /\ start_fb' = NoFb
    /\ UNCHANGED << fields, viewer, state, vnc_client, screen_size, pixels, screen_texture, vnc,
                    updated, chan, used, sent, evq, delivered, server, panic >>

\* connect(), called when the Connect button is clicked: a fresh channel
\* replaces vnc_rx and a worker is spawned
Connect ==
    /\ panic = "none"
    /\ pc = "ui"
    /\ state = "Connect"
    /\ spawned < MaxConnects
    /\ spawned' = spawned + 1
    /\ vnc_rx' = spawned + 1
    /\ status_text' = ConnectingText
    /\ captured' = [captured EXCEPT ![spawned + 1] = fields]
    /\ wpc' = [wpc EXCEPT ![spawned + 1] = "running"]
    /\ pc' = "poll"
    /\ trace' = <<>>
    /\ arrivals' = <<>>
    /\ start_fb' = NoFb
    /\ UNCHANGED << fields, viewer, state, vnc_client, screen_size, pixels, screen_texture, vnc,
                    updated, chan, used, sent, evq, delivered, server, panic >>

\* the user edits the connect form (host, port, password, shared) on the
\* connect screen
EditFields(f) ==
    /\ panic = "none"
    /\ pc = "ui"
    /\ state = "Connect"
    /\ f # fields
    /\ fields' = f
    /\ UNCHANGED << viewer, state, vnc_client, vnc_rx, screen_size, pixels, status_text,
                    screen_texture, pc, vnc, updated, workers, evq, delivered, server, panic,
                    trace, start_fb, arrivals >>

\* what the worker's blocking calls may come to: TcpStream::connect fails,
\* Client::from_tcp_stream fails, or the handshake yields a client
WorkerOutcomes ==
    { OutcomeErr(ConnectErrorText), OutcomeErr(InitErrorText) }
    \cup { OutcomeOk(Client(0, sz, Fmt3)) : sz \in SessionSizes }

\* the arguments worker i passes to its blocking calls, all taken from what
\* the closure captured
TcpCall(i) == CallTcpConnect(captured[i].host, ParsePort(captured[i].port))
HandshakeCall(i) == CallHandshake(captured[i].shared, Pw8(captured[i].password))

\* WorkerTcpConnect that reads host and port from the form when it runs
WorkerTcpConnectLive(i, ok) ==
    /\ panic = "none"
    /\ wpc[i] = "running"
    /\ IF ok
       THEN /\ wpc' = [wpc EXCEPT ![i] = "handshake"]
            /\ used' = [used EXCEPT ![i] =
                           << CallTcpConnect(fields.host, ParsePort(fields.port)),
                              CallHandshake(captured[i].shared,
                                            Pw8(captured[i].password)) >>]
            /\ UNCHANGED << chan, sent >>
       ELSE /\ wpc' = [wpc EXCEPT ![i] = "done"]
            /\ used' = used
            /\ Send(i, OutcomeErr(ConnectErrorText))
    /\ UNCHANGED << app, pc, vnc, updated, spawned, captured, evq, delivered, server,
                    panic, trace, start_fb, arrivals >>

\* the worker's first blocking call, TcpStream::connect(&addr), returns: on
\* failure the "Connect Error" string is sent and the thread ends; on success
\* the thread enters Client::from_tcp_stream
WorkerTcpConnect(i, ok) ==
    /\ panic = "none"
    /\ wpc[i] = "running"
    /\ IF ok
       THEN /\ wpc' = [wpc EXCEPT ![i] = "handshake"]
            /\ used' = [used EXCEPT ![i] = << TcpCall(i), HandshakeCall(i) >>]
            /\ UNCHANGED << chan, sent >>
       ELSE /\ wpc' = [wpc EXCEPT ![i] = "done"]
            /\ used' = used
            /\ Send(i, OutcomeErr(ConnectErrorText))
    /\ UNCHANGED << app, pc, vnc, updated, spawned, captured, evq, delivered, server,
                    panic, trace, start_fb, arrivals >>

\* WorkerHandshake that ends without a message when the handshake fails
WorkerHandshakeSilent(i, o) ==
    /\ panic = "none"
    /\ wpc[i] = "handshake"
    /\ o # OutcomeErr(ConnectErrorText)
    /\ used' = [used EXCEPT ![i] = <<>>]
    /\ wpc' = [wpc EXCEPT ![i] = "done"]
    /\ IF o.k = "ok"
       THEN Send(i, OutcomeOk([o.client EXCEPT !.id = i]))
       ELSE UNCHANGED << chan, sent >>
    /\ UNCHANGED << app, pc, vnc, updated, spawned, captured, evq, delivered, server,
                    panic, trace, start_fb, arrivals >>

\* the worker's second blocking call, Client::from_tcp_stream, returns: the
\* client or the "VNC Init Error" string is sent and the thread ends
WorkerHandshake(i, o) ==
    /\ panic = "none"
    /\ wpc[i] = "handshake"
    /\ o # OutcomeErr(ConnectErrorText)
    /\ used' = [used EXCEPT ![i] = <<>>]
    /\ wpc' = [wpc EXCEPT ![i] = "done"]
    /\ Send(i, IF o.k = "ok" THEN OutcomeOk([o.client EXCEPT !.id = i]) ELSE o)
    /\ UNCHANGED << app, pc, vnc, updated, spawned, captured, evq, delivered, server,
                    panic, trace, start_fb, arrivals >>

\* the thread spawned by connect() from start to end as one step (it touches
\* nothing but its own channel, so no other thread can tell the difference):
\* the outcome is sent and the thread ends
WorkerRun(i, o) ==
    /\ panic = "none"
    /\ wpc[i] = "running"
    /\ wpc' = [wpc EXCEPT ![i] = "done"]
    /\ used' = used
    /\ Send(i, IF o.k = "ok" THEN OutcomeOk([o.client EXCEPT !.id = i]) ELSE o)
    /\ UNCHANGED << app, pc, vnc, updated, spawned, captured, evq, delivered, server,
                    panic, trace, start_fb, arrivals >>

\* the session's event thread puts an event on the event channel
ServerDeliver(e) ==
    /\ panic = "none"
    /\ delivered < MaxEvents
    /\ vnc_client # NoClient \/ vnc # NoClient
    /\ evq' = Append(evq, e)
    /\ delivered' = delivered + 1
    /\ arrivals' = IF pc = "drain" THEN Append(arrivals, e) ELSE arrivals
    /\ UNCHANGED << app, pc, vnc, updated, workers, panic, trace, start_fb, server >>

\* ------------------------------------------------------------------ handle_vnc_events

\* a panic: the process aborts where it is; tr is what the call had done
Crash(cause, tr) ==
    /\ panic' = cause
    /\ trace' = tr
    /\ UNCHANGED << app, pc, vnc, updated, workers, evq, delivered, server, start_fb, arrivals >>

\* `if let Some(mut vnc) = self.vnc_client.take() { let mut updated = false;`
\* with the client, size and buffer the first block left behind
TakeClient(client, size, px) ==
    /\ vnc_client' = NoClient
    /\ vnc' = client
    /\ updated' = FALSE
    /\ pc' = IF client = NoClient THEN "ui" ELSE "drain"
    /\ start_fb' = [size |-> size, pixels |-> px]

\* the call finds no receiver, or try_recv finds no outcome yet
PollNothing ==
    /\ panic = "none"
    /\ pc = "poll"
    /\ IF vnc_rx = NoRx THEN TRUE ELSE chan[vnc_rx].k = "empty"
    /\ TakeClient(vnc_client, screen_size, pixels)
    /\ trace' = <<>>
    /\ arrivals' = evq
    /\ UNCHANGED << fields, viewer, state, vnc_rx, screen_size, pixels, status_text, screen_texture,
                    workers, evq, delivered, server, panic >>

\* PollConnected with the first update request marked incremental
PollConnectedIncremental(enc_ok, req_ok) ==
    /\ panic = "none"
    /\ pc = "poll"
    /\ vnc_rx # NoRx
    /\ chan[vnc_rx].k = "ok"
    /\ LET client == chan[vnc_rx].client
           w == client.size[1]
           h == client.size[2]
       IN  IF ~enc_ok
           THEN Crash("set_encodings", << TSetEncodings(ConnectEncodings, FALSE) >>)
           ELSE IF ~req_ok
           THEN Crash("request_update",
                      << TSetEncodings(ConnectEncodings, TRUE),
                         TRequestUpdate(w, h, TRUE, FALSE) >>)
           ELSE
             /\ trace' = << TSetEncodings(ConnectEncodings, TRUE),
                            TRequestUpdate(w, h, TRUE, TRUE) >>
             /\ screen_size' = <<w, h>>
             /\ pixels' = BlackBuffer(w, h)
             /\ state' = "Viewing"
             /\ status_text' = "Connected"
             /\ chan' = [chan EXCEPT ![vnc_rx] = NoOutcome]
             /\ vnc_rx' = NoRx
             /\ TakeClient(client, <<w, h>>, BlackBuffer(w, h))
             /\ evq' = <<>>
             /\ arrivals' = <<>>
             /\ server' = FirstRequested(server)
             /\ UNCHANGED << fields, viewer, screen_texture, spawned, wpc, captured, used,
                             sent, delivered, panic >>

\* try_recv yields Ok(vnc): negotiate the encodings, request the first full
\* update (each .unwrap() panics when its send fails), adopt the session
PollConnected(enc_ok, req_ok) ==
    /\ panic = "none"
    /\ pc = "poll"
    /\ vnc_rx # NoRx
    /\ chan[vnc_rx].k = "ok"
    /\ LET client == chan[vnc_rx].client
           w == client.size[1]
           h == client.size[2]
       IN  IF ~enc_ok
           THEN Crash("set_encodings", << TSetEncodings(ConnectEncodings, FALSE) >>)
           ELSE IF ~req_ok
           THEN Crash("request_update",
                      << TSetEncodings(ConnectEncodings, TRUE),
                         TRequestUpdate(w, h, FALSE, FALSE) >>)
           ELSE
             /\ trace' = << TSetEncodings(ConnectEncodings, TRUE),
                            TRequestUpdate(w, h, FALSE, TRUE) >>
             /\ screen_size' = <<w, h>>
             /\ pixels' = BlackBuffer(w, h)
             /\ state' = "Viewing"
             /\ status_text' = "Connected"
             /\ chan' = [chan EXCEPT ![vnc_rx] = NoOutcome]
             /\ vnc_rx' = NoRx
             /\ TakeClient(client, <<w, h>>, BlackBuffer(w, h))
             /\ evq' = <<>>
             /\ arrivals' = <<>>
             /\ server' = FirstRequested(server)
             /\ UNCHANGED << fields, viewer, screen_texture, spawned, wpc, captured, used,
                             sent, delivered, panic >>

\* PollFailed that tries again by itself: a new channel and a new worker
PollFailedRetries ==
    /\ panic = "none"
    /\ pc = "poll"
    /\ vnc_rx # NoRx
    /\ chan[vnc_rx].k = "err"
    /\ spawned < MaxConnects
    /\ status_text' = chan[vnc_rx].msg
    /\ chan' = [chan EXCEPT ![vnc_rx] = NoOutcome]
    /\ spawned' = spawned + 1
    /\ vnc_rx' = spawned + 1
    /\ wpc' = [wpc EXCEPT ![spawned + 1] = "running"]
    /\ TakeClient(vnc_client, screen_size, pixels)
    /\ trace' = <<>>
    /\ arrivals' = evq
    /\ captured' = [captured EXCEPT ![spawned + 1] = fields]
    /\ UNCHANGED << fields, viewer, state, screen_size, pixels, screen_texture, used, sent,
                    evq, delivered, server, panic >>

\* PollFailed that shows the text and keeps the receiver
PollFailedKeepsReceiver ==
    /\ panic = "none"
    /\ pc = "poll"
    /\ vnc_rx # NoRx
    /\ chan[vnc_rx].k = "err"
    /\ status_text' = chan[vnc_rx].msg
    /\ chan' = [chan EXCEPT ![vnc_rx] = NoOutcome]
    /\ TakeClient(vnc_client, screen_size, pixels)
    /\ trace' = <<>>
    /\ arrivals' = evq
    /\ UNCHANGED << fields, viewer, state, vnc_rx, screen_size, pixels, screen_texture,
                    spawned, wpc, captured, used, sent, evq, delivered, server, panic >>

\* try_recv yields Err(e): the text becomes the status, the receiver is dropped
PollFailed ==
    /\ panic = "none"
    /\ pc = "poll"
    /\ vnc_rx # NoRx
    /\ chan[vnc_rx].k = "err"
    /\ status_text' = chan[vnc_rx].msg
    /\ chan' = [chan EXCEPT ![vnc_rx] = NoOutcome]
    /\ vnc_rx' = NoRx
    /\ TakeClient(vnc_client, screen_size, pixels)
    /\ trace' = <<>>
    /\ arrivals' = evq
    /\ UNCHANGED << fields, viewer, state, screen_size, pixels, screen_texture, spawned, wpc,
                    captured, used, sent, evq, delivered, server, panic >>

\* DrainDisconnected that does not return: the loop goes on with the client
DrainDisconnectedGoesOn ==
    /\ panic = "none"
    /\ pc = "drain"
    /\ evq # <<>>
    /\ Head(evq).type = "Disconnected"
    /\ evq' = Tail(evq)
    /\ trace' = Append(trace, TEvent(Head(evq)))
    /\ state' = "Connect"
    /\ UNCHANGED << fields, viewer, vnc_client, vnc_rx, screen_size, pixels, status_text,
                    screen_texture, pc, vnc, updated, workers, delivered, server, panic,
                    start_fb, arrivals >>

\* DrainDisconnected that also frees the framebuffer
DrainDisconnectedClears ==
    /\ panic = "none"
    /\ pc = "drain"
    /\ evq # <<>>
    /\ Head(evq).type = "Disconnected"
    /\ evq' = <<>>
    /\ trace' = Append(trace, TEvent(Head(evq)))
    /\ state' = "Connect"
    /\ vnc_client' = NoClient
    /\ vnc' = NoClient
    /\ updated' = FALSE
    /\ pc' = "ui"
    /\ pixels' = <<>>
    /\ screen_size' = <<0, 0>>
    /\ UNCHANGED << fields, viewer, vnc_rx, status_text, screen_texture, workers, delivered, server, panic,
                    start_fb, arrivals >>

\* DrainDisconnected that leaves the loop with `break`: the client is put
\* back by the end of the call
DrainDisconnectedKeepsClient ==
    /\ panic = "none"
    /\ pc = "drain"
    /\ evq # <<>>
    /\ Head(evq).type = "Disconnected"
    /\ evq' = <<>>
    /\ trace' = Append(trace, TEvent(Head(evq)))
    /\ state' = "Connect"
    /\ vnc_client' = vnc
    /\ vnc' = NoClient
    /\ updated' = FALSE
    /\ pc' = "ui"
    /\ UNCHANGED << fields, viewer, vnc_rx, screen_size, pixels, status_text, screen_texture,
                    workers, delivered, server, panic, start_fb, arrivals >>

\* DrainDisconnected that leaves the viewing screen up
DrainDisconnectedStaysViewing ==
    /\ panic = "none"
    /\ pc = "drain"
    /\ evq # <<>>
    /\ Head(evq).type = "Disconnected"
    /\ evq' = <<>>
    /\ trace' = Append(trace, TEvent(Head(evq)))
    /\ vnc_client' = NoClient
    /\ vnc' = NoClient
    /\ updated' = FALSE
    /\ pc' = "ui"
    /\ UNCHANGED << fields, viewer, state, vnc_rx, screen_size, pixels, status_text,
                    screen_texture, workers, delivered, server, panic, start_fb, arrivals >>

\* poll_event yields Disconnected: back to Connect, the client is dropped
\* (and its event channel with it), the call returns at once
DrainDisconnected ==
    /\ panic = "none"
    /\ pc = "drain"
    /\ evq # <<>>
    /\ Head(evq).type = "Disconnected"
    /\ evq' = <<>>
    /\ trace' = Append(trace, TEvent(Head(evq)))
    /\ state' = "Connect"
    /\ vnc_client' = NoClient
    /\ vnc' = NoClient
    /\ updated' = FALSE
    /\ pc' = "ui"
    /\ UNCHANGED << fields, viewer, vnc_rx, screen_size, pixels, status_text, screen_texture,
                    workers, delivered, server, panic, start_fb, arrivals >>

\* DrainResize that keeps what the old buffer held
DrainResizeKeeps ==
    /\ panic = "none"
    /\ pc = "drain"
    /\ evq # <<>>
    /\ Head(evq).type = "Resize"
    /\ evq' = Tail(evq)
    /\ trace' = Append(trace, TEvent(Head(evq)))
    /\ screen_size' = << Head(evq).w, Head(evq).h >>
    /\ pixels' = [k \in 1..(Head(evq).w * Head(evq).h) |->
                     IF k <= Len(pixels) THEN pixels[k] ELSE Black]
    /\ updated' = TRUE
    /\ UNCHANGED << fields, viewer, state, vnc_client, vnc_rx, status_text, screen_texture, pc, vnc,
                    workers, delivered, server, panic, start_fb, arrivals >>

\* poll_event yields Resize(w, h)
DrainResize ==
    /\ panic = "none"
    /\ pc = "drain"
    /\ evq # <<>>
    /\ Head(evq).type = "Resize"
    /\ evq' = Tail(evq)
    /\ trace' = Append(trace, TEvent(Head(evq)))
    /\ screen_size' = << Head(evq).w, Head(evq).h >>
    /\ pixels' = BlackBuffer(Head(evq).w, Head(evq).h)
    /\ updated' = TRUE
    /\ UNCHANGED << fields, viewer, state, vnc_client, vnc_rx, status_text, screen_texture, pc, vnc,
                    workers, delivered, server, panic, start_fb, arrivals >>

\* poll_event yields PutPixels(rect, pixels); checks: whether the build has
\* overflow checks
DrainPutPixels(checks) ==
    /\ panic = "none"
    /\ pc = "drain"
    /\ evq # <<>>
    /\ Head(evq).type = "PutPixels"
    /\ LET r == UpdatePixels(pixels, screen_size[1], Head(evq).rect,
                             Head(evq).bytes, vnc.format, checks)
       IN  IF r.panic # "none"
           THEN Crash(r.panic, Append(trace, TEvent(Head(evq))))
           ELSE /\ evq' = Tail(evq)
                /\ trace' = Append(trace, TEvent(Head(evq)))
                /\ pixels' = r.pixels
                /\ updated' = TRUE
                /\ UNCHANGED << fields, viewer, state, vnc_client, vnc_rx, screen_size, status_text,
                                screen_texture, pc, vnc, workers, delivered, server, panic,
                                start_fb, arrivals >>

\* poll_event yields CopyPixels { src, dst }
DrainCopyPixels ==
    /\ panic = "none"
    /\ pc = "drain"
    /\ evq # <<>>
    /\ Head(evq).type = "CopyPixels"
    /\ LET r == CopyPixels(pixels, screen_size[1], Head(evq).src, Head(evq).dst)
       IN  IF r.panic
           THEN Crash("copy_pixels", Append(trace, TEvent(Head(evq))))
           ELSE /\ evq' = Tail(evq)
                /\ trace' = Append(trace, TEvent(Head(evq)))
                /\ pixels' = r.pixels
                /\ updated' = TRUE
                /\ UNCHANGED << fields, viewer, state, vnc_client, vnc_rx, screen_size, status_text,
                                screen_texture, pc, vnc, workers, delivered, server, panic,
                                start_fb, arrivals >>

\* DrainEndOfFrame that asks for the extent the session reported on connect
DrainEndOfFrameInitialExtent(req_ok) ==
    /\ panic = "none"
    /\ pc = "drain"
    /\ evq # <<>>
    /\ Head(evq).type = "EndOfFrame"
    /\ LET tr == trace \o << TEvent(Head(evq)), TRequestRepaint,
                             TRequestUpdate(vnc.size[1], vnc.size[2], TRUE, req_ok) >>
       IN  IF ~req_ok
           THEN Crash("request_update", tr)
           ELSE /\ evq' = Tail(evq)
                /\ trace' = tr
                /\ server' = Requested(server)
                /\ UNCHANGED << app, pc, vnc, updated, workers, delivered, panic,
                                start_fb, arrivals >>

\* DrainEndOfFrame that repaints and sends no update request
DrainEndOfFrameSilent(req_ok) ==
    /\ panic = "none"
    /\ pc = "drain"
    /\ evq # <<>>
    /\ Head(evq).type = "EndOfFrame"
    /\ evq' = Tail(evq)
    /\ trace' = trace \o << TEvent(Head(evq)), TRequestRepaint >>
    /\ UNCHANGED << app, pc, vnc, updated, workers, delivered, server, panic,
                    start_fb, arrivals >>

\* poll_event yields EndOfFrame: a repaint request, then the next incremental
\* update request over the current extent; .unwrap() panics when it fails
DrainEndOfFrame(req_ok) ==
    /\ panic = "none"
    /\ pc = "drain"
    /\ evq # <<>>
    /\ Head(evq).type = "EndOfFrame"
    /\ LET tr == trace \o << TEvent(Head(evq)), TRequestRepaint,
                             TRequestUpdate(screen_size[1], screen_size[2],
                                            TRUE, req_ok) >>
       IN  IF ~req_ok
           THEN Crash("request_update", tr)
           ELSE /\ evq' = Tail(evq)
                /\ trace' = tr
                /\ server' = Requested(server)
                /\ UNCHANGED << app, pc, vnc, updated, workers, delivered, panic,
                                start_fb, arrivals >>

\* poll_event yields any other event
DrainOther ==
    /\ panic = "none"
    /\ pc = "drain"
    /\ evq # <<>>
    /\ Head(evq).type \notin {"Disconnected", "Resize", "PutPixels", "CopyPixels",
                              "EndOfFrame"}
    /\ evq' = Tail(evq)
    /\ trace' = Append(trace, TEvent(Head(evq)))
    /\ UNCHANGED << app, pc, vnc, updated, workers, delivered, server, panic, start_fb,
                    arrivals >>

\* update_texture: nothing for an empty buffer, else the buffer is uploaded
UpdateTexture ==
    IF pixels = <<>> THEN screen_texture
    ELSE [size |-> screen_size, pixels |-> pixels]

\* DrainDone that leaves the loop although events are waiting
DrainDoneEarly ==
    /\ panic = "none"
    /\ pc = "drain"
    /\ IF updated
       THEN /\ screen_texture' = UpdateTexture
            /\ trace' = trace \o << TUpdateTexture, TRequestRepaint >>
       ELSE /\ screen_texture' = screen_texture
            /\ trace' = trace
    /\ vnc_client' = vnc
    /\ vnc' = NoClient
    /\ updated' = FALSE
    /\ pc' = "ui"
    /\ UNCHANGED << fields, viewer, state, vnc_rx, screen_size, pixels, status_text,
                    workers, evq, delivered, server, panic, start_fb, arrivals >>

\* DrainDone that uploads the texture whether or not anything changed
DrainDoneAlwaysRedraws ==
    /\ panic = "none"
    /\ pc = "drain"
    /\ evq = <<>>
    /\ screen_texture' = UpdateTexture
    /\ trace' = trace \o << TUpdateTexture, TRequestRepaint >>
    /\ vnc_client' = vnc
    /\ vnc' = NoClient
    /\ updated' = FALSE
    /\ pc' = "ui"
    /\ UNCHANGED << fields, viewer, state, vnc_rx, screen_size, pixels, status_text,
                    workers, evq, delivered, server, panic, start_fb, arrivals >>

\* poll_event yields None: the loop ends; if updated, the texture is uploaded
\* and a repaint requested; the client goes back into vnc_client
DrainDone ==
    /\ panic = "none"
    /\ pc = "drain"
    /\ evq = <<>>
    /\ IF updated
       THEN /\ screen_texture' = UpdateTexture
            /\ trace' = trace \o << TUpdateTexture, TRequestRepaint >>
       ELSE /\ screen_texture' = screen_texture
            /\ trace' = trace
    /\ vnc_client' = vnc
    /\ vnc' = NoClient
    /\ updated' = FALSE
    /\ pc' = "ui"
    /\ UNCHANGED << fields, viewer, state, vnc_rx, screen_size, pixels, status_text,
                    workers, evq, delivered, server, panic, start_fb, arrivals >>

\* the rest of update() when no widget is activated: the frame ends and
\* the next update() call begins
FrameEnd ==
    /\ panic = "none"
    /\ pc = "ui"
    /\ pc' = "poll"
    /\ trace' = <<>>
    /\ arrivals' = <<>>
    /\ start_fb' = NoFb
    /\ UNCHANGED << app, vnc, updated, workers, evq, delivered, server, panic >>

Next ==
    \/ Connect
    \/ \E i \in Workers, o \in WorkerOutcomes : WorkerRun(i, o)
    \/ \E e \in ServerEvents : ServerDeliver(e)
    \/ PollNothing
    \/ \E enc_ok, req_ok \in BOOLEAN : PollConnected(enc_ok, req_ok)
    \/ PollFailed
    \/ DrainDisconnected
    \/ DrainResize
    \/ \E checks \in BOOLEAN : DrainPutPixels(checks)
    \/ DrainCopyPixels
    \/ \E req_ok \in BOOLEAN : DrainEndOfFrame(req_ok)
    \/ DrainOther
    \/ DrainDone
    \/ FrameEnd

Spec == Init /\ [][Next]_vars

\* ------------------------------------------------------------------ framebuffer engine

\* a w*h buffer in which every pixel has a colour of its own, none black
Marker(w, h) == [k \in 1..(w * h) |-> <<k, 2 * k, 255 - k>>]

\* a block of n bytes; neighbouring samples decode differently in every
\* format used
Bytes(n) == [k \in 1..n |-> (37 * k + 11) % 256]

\* CopyPixels events as the protocol thread builds them: src and dst of the
\* same width and height, anywhere, inside the screen or not
CopyInputs ==
    { [size |-> <<MaxSide, MaxSide>>, format |-> Fmt3,
       events |-> << EvCopyPixels(Rect(sl, st, w, h), Rect(dl, dt, w, h)) >>] :
        sl \in 0..MaxSide, st \in 0..MaxSide, dl \in 0..MaxSide, dt \in 0..MaxSide,
        w \in 0..MaxSide, h \in 0..MaxSide }

\* rectangles of PutPixels events for a 2x2 (or smaller) screen: inside it,
\* on its edges, wider than it, below it, and at the last u16 row
PutRects ==
    { Rect(l, t, w, h) :
        l \in 0..2, t \in {0, 1, 2, U16 - 1}, w \in {0, 1, 2, 3, 5}, h \in 0..2 }

\* PutPixels events with blocks of every length, complete or short, in a
\* session of each pixel format
PutInputs ==
    { [size |-> <<2, 2>>, format |-> f,
       events |-> << EvPutPixels(r, Bytes(n)) >>] :
        f \in {Fmt3, Fmt565, Fmt888, Fmt24}, r \in PutRects, n \in 0..MaxBytes }

\* a Resize followed by a PutPixels in the same drain
ResizeInputs ==
    { [size |-> <<2, 2>>, format |-> f,
       events |-> << EvResize(sz[1], sz[2]), EvPutPixels(r, Bytes(MaxBytes)) >>] :
        f \in {Fmt3, Fmt565}, sz \in {<<2, 2>>, <<3, 1>>, <<1, 3>>, <<0, 0>>},
        r \in PutRects }

EngineInputs == CopyInputs \cup PutInputs \cup ResizeInputs

\* a session in Viewing state at the start of a drain (just after
\* vnc_client.take()), with a drawn framebuffer and events waiting
EngineInit ==
    \E in \in EngineInputs :
        /\ state = "Viewing"
        /\ vnc_client = NoClient
        /\ vnc_rx = NoRx
        /\ screen_size = in.size
        /\ pixels = Marker(in.size[1], in.size[2])
        /\ status_text = "Connected"
        /\ screen_texture = [size |-> in.size, pixels |-> Marker(in.size[1], in.size[2])]
        /\ fields = DefaultFields
        /\ view_only = FALSE
        /\ preferred_encoding = "ZRLE"
        /\ allow_copyrect = TRUE
        /\ last_pointer_pos = NoPos
        /\ last_buttons = 0
        /\ last_sent = NoSent
        /\ pc = "drain"
        /\ vnc = Client(1, in.size, in.format)
        /\ updated = FALSE
        /\ spawned = 1
        /\ wpc = [i \in Workers |-> IF i = 1 THEN "done" ELSE "unspawned"]
        /\ chan = [i \in Workers |-> NoOutcome]
        /\ captured = [i \in Workers |-> IF i = 1 THEN DefaultFields ELSE NoFields]
        /\ used = [i \in Workers |-> <<>>]
        /\ sent = [i \in Workers |-> IF i = 1 THEN 1 ELSE 0]
        /\ evq = in.events
        /\ delivered = Len(in.events)
        /\ panic = "none"
        /\ trace = <<>>
        /\ start_fb = [size |-> in.size, pixels |-> Marker(in.size[1], in.size[2])]
        /\ arrivals = in.events
        /\ server = FreeServer

\* the drain of the waiting events
EngineNext ==
    \/ DrainResize
    \/ \E checks \in BOOLEAN : DrainPutPixels(checks)
    \/ DrainCopyPixels
    \/ DrainDone

EngineSpec == EngineInit /\ [][EngineNext]_vars

\* ------------------------------------------------------------------ toolbar, input, options

\* how far the widgets of the current update() call have run: 0 nothing yet,
\* 1 the toolbar, 2 handle_input, 3 the options panel
UiStage ==
    LET Ran(part) ==
            \E i \in 1..Len(trace) : trace[i].k = "widget" /\ trace[i].part = part
    IN  IF Ran("options") THEN 3
        ELSE IF Ran("handle_input") THEN 2
        ELSE IF Ran("toolbar") THEN 1
        ELSE 0

\* which sends of a handler fail, by their number within the handler
FailPatterns == {{}, {1}, {2}}

\* a handler's messages with the outcome of each send filled in
Stamp(msgs, bad) == [n \in 1..Len(msgs) |-> [msgs[n] EXCEPT !.ok = (n \notin bad)]]

\* ClickRefresh that asks for an incremental update
ClickRefreshIncremental(ok) ==
    /\ panic = "none"
    /\ pc = "ui"
    /\ state = "Viewing"
    /\ UiStage = 0
    /\ trace' = trace \o << TWidget("toolbar", "refresh") >> \o
                 (IF vnc_client # NoClient
                  THEN << TRequestUpdate(screen_size[1], screen_size[2], TRUE, ok) >>
                  ELSE << >>)
    /\ server' = IF vnc_client # NoClient /\ ok THEN Requested(server) ELSE server
    /\ UNCHANGED << app, pc, vnc, updated, workers, evq, delivered, panic, start_fb,
                    arrivals >>

\* the Refresh button
ClickRefresh(ok) ==
    /\ panic = "none"
    /\ pc = "ui"
    /\ state = "Viewing"
    /\ UiStage = 0
    /\ trace' = trace \o << TWidget("toolbar", "refresh") >> \o
                 (IF vnc_client # NoClient
                  THEN << TRequestUpdate(screen_size[1], screen_size[2], FALSE, ok) >>
                  ELSE << >>)
    /\ server' = IF vnc_client # NoClient /\ ok THEN Requested(server) ELSE server
    /\ UNCHANGED << app, pc, vnc, updated, workers, evq, delivered, panic, start_fb,
                    arrivals >>

\* the key messages of the Ctrl-Alt-Del button
CtrlAltDelKeys ==
    << TSendKey(TRUE, 65507, TRUE), TSendKey(TRUE, 65513, TRUE),
       TSendKey(TRUE, 65535, TRUE), TSendKey(FALSE, 65535, TRUE),
       TSendKey(FALSE, 65513, TRUE), TSendKey(FALSE, 65507, TRUE) >>

\* the key messages of the Win button
WinKeys ==
    << TSendKey(TRUE, 65507, TRUE), TSendKey(TRUE, 65307, TRUE),
       TSendKey(FALSE, 65307, TRUE), TSendKey(FALSE, 65507, TRUE) >>

\* the Send Ctrl-Alt-Del and Send Win Key buttons
ClickKeys(name, keys, bad) ==
    /\ panic = "none"
    /\ pc = "ui"
    /\ state = "Viewing"
    /\ UiStage = 0
    /\ trace' = trace \o << TWidget("toolbar", name) >> \o
                 (IF vnc_client # NoClient THEN Stamp(keys, bad) ELSE << >>)
    /\ UNCHANGED << app, pc, vnc, updated, workers, evq, delivered, server, panic, start_fb,
                    arrivals >>

\* egui events of a frame; a Key event carries what keys::map_key gives for
\* its key (NoKeysym for None)
NoKeysym == 0
KeyEv(keysym, pressed) == [type |-> "Key", keysym |-> keysym, pressed |-> pressed]
TextEv(chars) == [type |-> "Text", chars |-> chars]
OtherEv == [type |-> "PointerMoved"]

\* the event lists of a frame: none; a press and its release around a key
\* without key symbol; text (the last code point is char::MAX); a mix
InputEventLists ==
    { << >>,
      << KeyEv(65293, TRUE), KeyEv(NoKeysym, TRUE), KeyEv(65293, FALSE) >>,
      << TextEv(<<97, 1114111>>) >>,
      << KeyEv(65505, TRUE), OtherEv, TextEv(<<65>>), KeyEv(65505, FALSE) >> }

\* where the pointer hovers over the image, in halves of its width and
\* height, or NoHover
NoHover == << >>
Hovers == {NoHover, <<0, 0>>, <<1, 0>>, <<1, 1>>}

\* the button masks of a frame: none, primary and secondary
ButtonMasks == {0, 5}

\* x and y of the pointer message: the relative position times the screen size
ScalePos(hover, size) == << (hover[1] * size[1]) \div 2, (hover[2] * size[2]) \div 2 >>

\* CharKeys that sends the presses only
RECURSIVE CharKeysPressOnly(_)
CharKeysPressOnly(chars) ==
    IF chars = << >> THEN << >>
    ELSE << TSendKey(TRUE, 16777216 + Head(chars), TRUE) >>
         \o CharKeysPressOnly(Tail(chars))

\* the key messages of a text event: press and release per character
RECURSIVE CharKeys(_)
CharKeys(chars) ==
    IF chars = << >> THEN << >>
    ELSE << TSendKey(TRUE, 16777216 + Head(chars), TRUE),
            TSendKey(FALSE, 16777216 + Head(chars), TRUE) >> \o CharKeys(Tail(chars))

\* the key messages of the keyboard loop
RECURSIVE EventKeys(_)
EventKeys(events) ==
    IF events = << >> THEN << >>
    ELSE LET e == Head(events)
         IN  (CASE e.type = "Key" ->
                     IF e.keysym # NoKeysym
                     THEN << TSendKey(e.pressed, e.keysym, TRUE) >>
                     ELSE << >>
                [] e.type = "Text" -> CharKeys(e.chars)
                [] OTHER -> << >>) \o EventKeys(Tail(events))

\* PointerDiffers that does not look at the throttle state
PointerDiffersAlways(hover, buttons) == hover # NoHover

\* whether the pointer part sends: the pointer hovers, and position or
\* buttons differ from the throttle state
PointerDiffers(hover, buttons) ==
    /\ hover # NoHover
    /\ \/ last_pointer_pos # ScalePos(hover, screen_size)
       \/ last_buttons # buttons

\* handle_input; strict: the variant of main.rs, which unwraps every send
HandleInputWith(strict, hover, buttons, events, bad) ==
    /\ panic = "none"
    /\ pc = "ui"
    /\ state = "Viewing"
    /\ UiStage <= 1
    /\ IF view_only \/ vnc_client = NoClient
       THEN /\ trace' = Append(trace, THandleInput(hover, buttons, events))
            /\ UNCHANGED << app, pc, vnc, updated, workers, evq, delivered, server, panic,
                            start_fb, arrivals >>
       ELSE LET pos == ScalePos(hover, screen_size)
                ptr == IF PointerDiffers(hover, buttons)
                       THEN << TSendPointer(buttons, pos[1], pos[2], TRUE) >>
                       ELSE << >>
                msgs == Stamp(ptr \o EventKeys(events), bad)
                failed == { n \in 1..Len(msgs) : ~msgs[n].ok }
                first == CHOOSE n \in failed : \A m \in failed : n <= m
            IN  IF strict /\ failed # {}
                THEN Crash(msgs[first].k,
                           trace \o << THandleInput(hover, buttons, events) >>
                                 \o SubSeq(msgs, 1, first))
                ELSE /\ trace' = trace \o << THandleInput(hover, buttons, events) >> \o msgs
                     /\ IF ptr # << >>
                        THEN /\ last_pointer_pos' = pos
                             /\ last_buttons' = buttons
                             /\ last_sent' = [id |-> vnc_client.id, buttons |-> buttons,
                                              x |-> pos[1], y |-> pos[2]]
                        ELSE UNCHANGED << last_pointer_pos, last_buttons, last_sent >>
                     /\ UNCHANGED << state, vnc_client, vnc_rx, screen_size, pixels,
                                     status_text, screen_texture, fields, view_only,
                                     preferred_encoding, allow_copyrect, pc, vnc, updated,
                                     workers, evq, delivered, server, panic, start_fb, arrivals >>

\* handle_input of app/ui.rs: `let _ =` on every send
HandleInput(hover, buttons, events, bad) ==
    HandleInputWith(FALSE, hover, buttons, events, bad)

\* handle_input of main.rs: `.unwrap()` on every send
MainHandleInput(hover, buttons, events, bad) ==
    HandleInputWith(TRUE, hover, buttons, events, bad)

\* the View only checkbox of the options panel (or of the options window of
\* the connect screen); the panel is taken to be open
SetViewOnly(b) ==
    /\ panic = "none"
    /\ pc = "ui"
    /\ UiStage <= 2
    /\ b # view_only
    /\ view_only' = b
    /\ trace' = Append(trace, TWidget("options", "view_only"))
    /\ UNCHANGED << state, vnc_client, vnc_rx, screen_size, pixels, status_text,
                    screen_texture, fields, preferred_encoding, allow_copyrect,
                    last_pointer_pos, last_buttons, last_sent, pc, vnc, updated, workers,
                    evq, delivered, server, panic, start_fb, arrivals >>

\* the Preferred encoding box and the Allow CopyRect checkbox of the options
\* panel
SetEncodingOptions(pe, cr) ==
    /\ panic = "none"
    /\ pc = "ui"
    /\ state = "Viewing"
    /\ UiStage <= 2
    /\ (pe # preferred_encoding /\ cr = allow_copyrect)
          \/ (pe = preferred_encoding /\ cr # allow_copyrect)
    /\ preferred_encoding' = pe
    /\ allow_copyrect' = cr
    /\ trace' = Append(trace, TWidget("options", "encoding"))
    /\ UNCHANGED << state, vnc_client, vnc_rx, screen_size, pixels, status_text,
                    screen_texture, fields, view_only, last_pointer_pos, last_buttons,
                    last_sent, pc, vnc, updated, workers, evq, delivered, server, panic, start_fb,
                    arrivals >>

\* ApplyEncodings that puts Raw first when Raw is the preferred encoding
ApplyEncodingsRawFirst(pe, cr) ==
    (CASE pe = "ZRLE" -> << "Zrle" >>
       [] pe = "Hextile" -> << "Hextile" >>
       [] OTHER -> << "Raw" >>)
    \o (IF cr THEN << "CopyRect" >> ELSE << >>)
    \o (IF pe \in {"ZRLE", "Hextile"} THEN << "Raw" >> ELSE << >>)
    \o << "Cursor", "DesktopSize" >>

\* the encoding list the Apply button builds
ApplyEncodings(pe, cr) ==
    (CASE pe = "ZRLE" -> << "Zrle" >>
       [] pe = "Hextile" -> << "Hextile" >>
       [] OTHER -> << >>)
    \o (IF cr THEN << "CopyRect" >> ELSE << >>)
    \o << "Raw", "Cursor", "DesktopSize" >>

\* the Apply button of the options panel
ClickApply(ok) ==
    /\ panic = "none"
    /\ pc = "ui"
    /\ state = "Viewing"
    /\ UiStage <= 2
    /\ trace' = trace \o << TWidget("options", "apply") >> \o
                 (IF vnc_client # NoClient
                  THEN << TSetEncodings(ApplyEncodings(preferred_encoding, allow_copyrect),
                                        ok) >>
                  ELSE << >>)
    /\ UNCHANGED << app, pc, vnc, updated, workers, evq, delivered, server, panic, start_fb,
                    arrivals >>

\* a session in Viewing state between handle_vnc_events and the widgets, with
\* a drawn framebuffer and no events waiting
InputInit ==
    /\ state = "Viewing"
    /\ vnc_client = Client(1, <<2, 1>>, Fmt3)
    /\ vnc_rx = NoRx
    /\ screen_size = <<2, 1>>
    /\ pixels = Marker(2, 1)
    /\ status_text = "Connected"
    /\ screen_texture = [size |-> <<2, 1>>, pixels |-> Marker(2, 1)]
    /\ fields = DefaultFields
    /\ view_only = FALSE
    /\ preferred_encoding = "ZRLE"
    /\ allow_copyrect = TRUE
    /\ last_pointer_pos = NoPos
    /\ last_buttons = 0
    /\ last_sent = NoSent
    /\ pc = "ui"
    /\ vnc = NoClient
    /\ updated = FALSE
    /\ spawned = 1
    /\ wpc = [i \in Workers |-> IF i = 1 THEN "done" ELSE "unspawned"]
    /\ chan = [i \in Workers |-> NoOutcome]
    /\ captured = [i \in Workers |-> IF i = 1 THEN DefaultFields ELSE NoFields]
    /\ used = [i \in Workers |-> <<>>]
    /\ sent = [i \in Workers |-> IF i = 1 THEN 1 ELSE 0]
    /\ evq = <<>>
    /\ delivered = 0
    /\ panic = "none"
    /\ trace = <<>>
    /\ start_fb = NoFb
    /\ arrivals = <<>>
    /\ server = FreeServer

\* the frames of a viewing session: the poll, then the widgets
InputNext ==
    \/ PollNothing
    \/ DrainDone
    \/ \E ok \in BOOLEAN : ClickRefresh(ok)
    \/ \E bad \in FailPatterns : ClickKeys("ctrl-alt-del", CtrlAltDelKeys, bad)
    \/ \E bad \in FailPatterns : ClickKeys("win", WinKeys, bad)
    \/ \E hover \in Hovers, buttons \in ButtonMasks, events \in InputEventLists,
          bad \in FailPatterns : HandleInput(hover, buttons, events, bad)
    \/ \E hover \in Hovers, buttons \in ButtonMasks, events \in InputEventLists,
          bad \in FailPatterns : MainHandleInput(hover, buttons, events, bad)
    \/ \E b \in BOOLEAN : SetViewOnly(b)
    \/ \E pe \in {"ZRLE", "Hextile", "Raw"}, cr \in BOOLEAN : SetEncodingOptions(pe, cr)
    \/ \E ok \in BOOLEAN : ClickApply(ok)
    \/ FrameEnd

InputSpec == InputInit /\ [][InputNext]_vars

\* the lifecycle with the encoding options: every place an encoding list is
\* sent from
EncodingNext ==
    \/ Connect
    \/ \E i \in Workers, o \in WorkerOutcomes : WorkerRun(i, o)
    \/ ServerDeliver(EvDisconnected)
    \/ PollNothing
    \/ \E enc_ok, req_ok \in BOOLEAN : PollConnected(enc_ok, req_ok)
    \/ PollFailed
    \/ DrainDisconnected
    \/ DrainDone
    \/ \E pe \in {"ZRLE", "Hextile", "Raw"}, cr \in BOOLEAN : SetEncodingOptions(pe, cr)
    \/ \E ok \in BOOLEAN : ClickApply(ok)
    \/ FrameEnd

EncodingSpec == Init /\ [][EncodingNext]_vars

\* ------------------------------------------------------------------ sessions one after another

\* the frames of input the sessions are driven with: the pointer away from
\* the image or over it, a button down or not, a key pressed or not
SessionEventLists == { << >>, << KeyEv(65, TRUE) >> }

\* connects, outcomes and disconnects as in Spec, and in Viewing state the
\* toolbar, handle_input and Apply with every send succeeding
SessionNext ==
    \/ Connect
    \/ \E i \in Workers, o \in WorkerOutcomes : WorkerRun(i, o)
    \/ ServerDeliver(EvDisconnected)
    \/ PollNothing
    \/ PollConnected(TRUE, TRUE)
    \/ PollFailed
    \/ DrainDisconnected
    \/ DrainDone
    \/ ClickRefresh(TRUE)
    \/ ClickKeys("win", WinKeys, {})
    \/ \E hover \in Hovers, buttons \in ButtonMasks, events \in SessionEventLists :
          HandleInput(hover, buttons, events, {})
    \/ ClickApply(TRUE)
    \/ FrameEnd

SessionSpec == Init /\ [][SessionNext]_vars

\* ------------------------------------------------------------------ request pacing

\* the paced server answers one of the update requests it owes an answer to:
\* the frame's EndOfFrame reaches the session's event channel
ServerAnswer ==
    /\ panic = "none"
    /\ delivered < MaxEvents
    /\ vnc_client # NoClient \/ vnc # NoClient
    /\ server.paced
    /\ server.owed > 0
    /\ evq' = Append(evq, EvEndOfFrame)
    /\ delivered' = delivered + 1
    /\ arrivals' = IF pc = "drain" THEN Append(arrivals, EvEndOfFrame) ELSE arrivals
    /\ server' = PacedServer(server.owed - 1)
    /\ UNCHANGED << app, pc, vnc, updated, workers, panic, trace, start_fb >>

\* the Refresh button, clicked while fewer than MaxEvents requests are
\* unanswered (which keeps the count finite)
RefreshPaced ==
    /\ server.paced
    /\ server.owed < MaxEvents
    /\ ClickRefresh(TRUE)

\* VncApp::default(), and a paced server that has received no request
PacingInit ==
    /\ state = "Connect"
    /\ vnc_client = NoClient
    /\ vnc_rx = NoRx
    /\ screen_size = <<0, 0>>
    /\ pixels = <<>>
    /\ status_text = "Ready"
    /\ screen_texture = NoTexture
    /\ fields = DefaultFields
    /\ view_only = FALSE
    /\ preferred_encoding = "ZRLE"
    /\ allow_copyrect = TRUE
    /\ last_pointer_pos = NoPos
    /\ last_buttons = 0
    /\ last_sent = NoSent
    /\ pc = "poll"
    /\ vnc = NoClient
    /\ updated = FALSE
    /\ spawned = 0
    /\ wpc = [i \in Workers |-> "unspawned"]
    /\ chan = [i \in Workers |-> NoOutcome]
    /\ captured = [i \in Workers |-> NoFields]
    /\ used = [i \in Workers |-> <<>>]
    /\ sent = [i \in Workers |-> 0]
    /\ evq = <<>>
    /\ delivered = 0
    /\ panic = "none"
    /\ trace = <<>>
    /\ start_fb = NoFb
    /\ arrivals = <<>>
    /\ server = PacedServer(0)

\* connects until a session is open, then the session with the paced server:
\* its frames, the requests the EndOfFrame arm sends, and refreshes
PacingNext ==
    \/ Connect
    \/ \E i \in Workers, o \in WorkerOutcomes : WorkerRun(i, o)
    \/ ServerAnswer
    \/ PollNothing
    \/ PollConnected(TRUE, TRUE)
    \/ PollFailed
    \/ DrainEndOfFrame(TRUE)
    \/ DrainDone
    \/ RefreshPaced
    \/ FrameEnd

PacingSpec == PacingInit /\ [][PacingNext]_vars

\* ------------------------------------------------------------------ resolving a connection attempt

\* a tick of update(): the poll of the receiver, the drain, the frame's end
Tick ==
    \/ PollNothing
    \/ \E enc_ok, req_ok \in BOOLEAN : PollConnected(enc_ok, req_ok)
    \/ PollFailed
    \/ DrainDone
    \/ FrameEnd

\* connects, edits of the form, the workers and the ticks, up to the
\* adoption of a session
ResolveNext ==
    \/ Connect
    \/ \E f \in FieldValues : EditFields(f)
    \/ \E i \in Workers, o \in WorkerOutcomes : WorkerRun(i, o)
    \/ PollNothing
    \/ \E enc_ok, req_ok \in BOOLEAN : PollConnected(enc_ok, req_ok)
    \/ PollFailed
    \/ DrainDone
    \/ FrameEnd

\* the worker's blocking calls return (each worker that runs comes to its
\* end) and egui keeps calling update() (a tick that can go on does)
ResolveSpec ==
    /\ Init
    /\ [][ResolveNext]_vars
    /\ \A i \in Workers : WF_vars(\E o \in WorkerOutcomes : WorkerRun(i, o))
    /\ WF_vars(Tick)

\* ------------------------------------------------------------------ sample decoding

\* 16 bits per pixel, little endian, 5-6-5
Fmt565LE ==
    [bits_per_pixel |-> 16, big_endian |-> FALSE,
     red_max |-> 31, green_max |-> 63, blue_max |-> 31,
     red_shift |-> 11, green_shift |-> 5, blue_shift |-> 0]

\* channel shifts (u8, below the 32 bits of a sample) and channel maxima
\* (u16) a PixelFormat may carry
ShiftSeq == <<0, 1, 5, 8, 11, 16, 24, 31>>
MaxSeq == <<0, 1, 5, 31, 63, 255, 1023>>

\* shape number k of a channel: every pairing of a shift with a maximum
\* has a number in 0..(Len(ShiftSeq) * Len(MaxSeq) - 1)
ChannelShape(k) ==
    [shift |-> ShiftSeq[(k % Len(ShiftSeq)) + 1], max |-> MaxSeq[(k % Len(MaxSeq)) + 1]]

\* the formats of the supported sample widths, in both byte orders, red
\* running through every channel shape with green and blue on its neighbours
DecodeFormats ==
    { [bits_per_pixel |-> bits, big_endian |-> be,
       red_max |-> ChannelShape(k).max, red_shift |-> ChannelShape(k).shift,
       green_max |-> ChannelShape(k + 1).max, green_shift |-> ChannelShape(k + 1).shift,
       blue_max |-> ChannelShape(k + 2).max, blue_shift |-> ChannelShape(k + 2).shift] :
        bits \in {8, 16, 32}, be \in BOOLEAN,
        k \in 0..(Len(ShiftSeq) * Len(MaxSeq) - 1) }

\* the byte values samples are built from
ByteValues == {0, 90, 248, 255}

\* PutPixels events of one pixel carrying one whole sample, in a session of
\* each format
DecodeInputs ==
    { [size |-> <<1, 1>>, format |-> f,
       events |-> << EvPutPixels(Rect(0, 0, 1, 1), bytes) >>] :
        f \in DecodeFormats \cup {Fmt565LE},
        bytes \in UNION { [1..n -> ByteValues] : n \in {1, 2, 4} } }

\* a session in Viewing state at the start of a drain, as EngineInit, with
\* one sample waiting whose length is the session's sample width
DecodeInit ==
    \E in \in DecodeInputs :
        /\ Len(in.events[1].bytes) = in.format.bits_per_pixel \div 8
        /\ state = "Viewing"
        /\ vnc_client = NoClient
        /\ vnc_rx = NoRx
        /\ screen_size = in.size
        /\ pixels = Marker(in.size[1], in.size[2])
        /\ status_text = "Connected"
        /\ screen_texture = [size |-> in.size, pixels |-> Marker(in.size[1], in.size[2])]
        /\ fields = DefaultFields
        /\ view_only = FALSE
        /\ preferred_encoding = "ZRLE"
        /\ allow_copyrect = TRUE
        /\ last_pointer_pos = NoPos
        /\ last_buttons = 0
        /\ last_sent = NoSent
        /\ pc = "drain"
        /\ vnc = Client(1, in.size, in.format)
        /\ updated = FALSE
        /\ spawned = 1
        /\ wpc = [i \in Workers |-> IF i = 1 THEN "done" ELSE "unspawned"]
        /\ chan = [i \in Workers |-> NoOutcome]
        /\ captured = [i \in Workers |-> IF i = 1 THEN DefaultFields ELSE NoFields]
        /\ used = [i \in Workers |-> <<>>]
        /\ sent = [i \in Workers |-> IF i = 1 THEN 1 ELSE 0]
        /\ evq = in.events
        /\ delivered = Len(in.events)
        /\ panic = "none"
        /\ trace = <<>>
        /\ start_fb = [size |-> in.size, pixels |-> Marker(in.size[1], in.size[2])]
        /\ arrivals = in.events
        /\ server = FreeServer

\* the drain of the waiting sample
DecodeNext ==
    \/ \E checks \in BOOLEAN : DrainPutPixels(checks)
    \/ DrainDone

DecodeSpec == DecodeInit /\ [][DecodeNext]_vars

\* ------------------------------------------------------------------ connection attempts

\* the lifecycle with the worker's two blocking calls as separate steps and
\* the connect form editable; the only event a session delivers is its end
WorkerNext ==
    \/ Connect
    \/ \E f \in FieldValues : EditFields(f)
    \/ \E i \in Workers, ok \in BOOLEAN : WorkerTcpConnect(i, ok)
    \/ \E i \in Workers, o \in WorkerOutcomes : WorkerHandshake(i, o)
    \/ ServerDeliver(EvDisconnected)
    \/ PollNothing
    \/ \E enc_ok, req_ok \in BOOLEAN : PollConnected(enc_ok, req_ok)
    \/ PollFailed
    \/ DrainDisconnected
    \/ DrainDone
    \/ FrameEnd

WorkerSpec == Init /\ [][WorkerNext]_vars

\* ------------------------------------------------------------------ reading the trace

IsEvent(t, ty) == t.k = "event" /\ t.ev.type = ty

MutatingTypes == {"Resize", "PutPixels", "CopyPixels"}

\* the events a trace processed, in order
EventsOf(tr) ==
    LET sel == SelectSeq(tr, LAMBDA t : t.k = "event")
    IN  [i \in 1..Len(sel) |-> sel[i].ev]

\* how many entries of kind k a trace holds
CountKind(tr, k) == Cardinality({i \in DOMAIN tr : tr[i].k = k})

\* the position of the first Disconnected in a sequence of events, 0 if none
FirstDisconnected(evs) ==
    IF \E i \in DOMAIN evs : evs[i].type = "Disconnected"
    THEN CHOOSE i \in DOMAIN evs :
            /\ evs[i].type = "Disconnected"
            /\ \A j \in 1..(i - 1) : evs[j].type # "Disconnected"
    ELSE 0

IsPrefix(a, b) == Len(a) <= Len(b) /\ SubSeq(b, 1, Len(a)) = a

\* the framebuffer after one event, by the event's meaning
ApplyEvent(fb, e) ==
    CASE e.type = "Resize" ->
            [size |-> <<e.w, e.h>>, pixels |-> BlackBuffer(e.w, e.h)]
      [] e.type = "PutPixels" ->
            [size |-> fb.size,
             pixels |-> UpdatePixels(fb.pixels, fb.size[1], e.rect, e.bytes,
                                     Fmt3, FALSE).pixels]
      [] e.type = "CopyPixels" ->
            [size |-> fb.size,
             pixels |-> CopyPixels(fb.pixels, fb.size[1], e.src, e.dst).pixels]
      [] OTHER -> fb

RECURSIVE ApplyAll(_, _)
ApplyAll(fb, evs) ==
    IF evs = <<>> THEN fb ELSE ApplyAll(ApplyEvent(fb, Head(evs)), Tail(evs))

\* the extent when entry i of the trace was processed: that of the last
\* Resize before it, else the extent the drain began with
ExtentAt(i) ==
    LET rs == {j \in 1..(i - 1) : IsEvent(trace[j], "Resize")}
    IN  IF rs = {} THEN start_fb.size
        ELSE LET j == CHOOSE m \in rs : \A n \in rs : n <= m
             IN  <<trace[j].ev.w, trace[j].ev.h>>

\* the entries after entry i up to the next event (or the end of the trace)
AfterEntry(i) ==
    LET later == {j \in (i + 1)..Len(trace) : trace[j].k = "event"}
        stop == IF later = {} THEN Len(trace) + 1
                ELSE CHOOSE m \in later : \A n \in later : m <= n
    IN  SubSeq(trace, i + 1, stop - 1)

SawDisconnected == \E i \in DOMAIN trace : IsEvent(trace[i], "Disconnected")
SawMutation == \E i \in DOMAIN trace : trace[i].k = "event" /\ trace[i].ev.type \in MutatingTypes

\* ------------------------------------------------------------------ claims

\* C1: when the drain polls a Disconnected event, the state becomes Connect, the
\* session handle is dropped (neither vnc_client nor the local holds it), the
\* call has returned, and nothing follows the Disconnected event in what the
\* call did: no later event is applied and no update request is sent; and
\* the event loop never runs without a session handle.
C1_DisconnectEndsDrain ==
    /\ \A i \in DOMAIN trace :
          IsEvent(trace[i], "Disconnected") =>
              /\ i = Len(trace)
              /\ state = "Connect"
              /\ vnc_client = NoClient
              /\ vnc = NoClient
              /\ pc = "ui"
    /\ (pc = "drain") => (vnc # NoClient)

\* a Disconnected event was processed while a later arrival sat behind it
C1_Witness ==
    /\ SawDisconnected
    /\ Len(arrivals) > Len(EventsOf(trace))
    /\ state = "Connect"
    /\ vnc_client = NoClient

\* C2: the tick that receives a failure string leaves the state Connect and
\* no session handle, makes status_text the string itself, clears the
\* receiver and spawns no worker; a worker is only ever spawned by connect().
C2_FailureSurfaced ==
    [][ /\ (pc = "poll" /\ pc' # "poll" /\ vnc_rx # NoRx /\ chan[vnc_rx].k = "err") =>
            /\ state' = "Connect"
            /\ vnc_client' = NoClient
            /\ vnc' = NoClient
            /\ status_text' = chan[vnc_rx].msg
            /\ vnc_rx' = NoRx
            /\ spawned' = spawned
            /\ \A i \in Workers : wpc'[i] = "running" => wpc[i] = "running"
        /\ (spawned' # spawned) =>
            /\ pc = "ui"
            /\ state = "Connect"
            /\ status_text' = ConnectingText
            /\ vnc_rx' = spawned' ]_vars

\* a failure string is on the status line, nothing is pending
C2_Witness ==
    /\ status_text \in {ConnectErrorText, InitErrorText}
    /\ state = "Connect"
    /\ vnc_rx = NoRx
    /\ vnc_client = NoClient
    /\ pc = "ui"

\* C3: the tick that receives a live session handle and goes on to the event
\* loop has, before any event of the session is processed, negotiated the
\* encodings, sent exactly one update request, non-incremental, for
\* (0,0,w,h) with (w,h) the session's size, made the framebuffer w*h black
\* pixels with screen_size (w,h), the state Viewing and the status "Connected".
C3_AdoptBeforeEvents ==
    [][ (pc = "poll" /\ pc' = "drain" /\ vnc_rx # NoRx /\ chan[vnc_rx].k = "ok") =>
            LET w == chan[vnc_rx].client.size[1]
                h == chan[vnc_rx].client.size[2]
            IN  /\ trace' = << TSetEncodings(ConnectEncodings, TRUE),
                               TRequestUpdate(w, h, FALSE, TRUE) >>
                /\ screen_size' = <<w, h>>
                /\ Len(pixels') = w * h
                /\ \A k \in DOMAIN pixels' : pixels'[k] = Black
                /\ state' = "Viewing"
                /\ status_text' = "Connected"
                /\ vnc' = chan[vnc_rx].client ]_vars

\* a session was adopted and its first event is still to be processed
C3_Witness ==
    /\ pc = "drain"
    /\ Len(trace) = 2
    /\ trace[2].k = "request_update"
    /\ state = "Viewing"
    /\ Len(pixels) = 2
    /\ evq # <<>>

\* C4: while a call drains and when it has ended, the framebuffer is the one
\* the drain began with after applying, one by one and in arrival order, the
\* events polled so far up to (excluding) the first Disconnected; when the
\* call has ended, the events processed are all that arrived while it
\* drained, or those up to and including the first Disconnected.
C4_DrainInArrivalOrder ==
    (panic = "none" /\ pc # "poll") =>
        LET evs == EventsOf(trace)
            d == FirstDisconnected(arrivals)
        IN  /\ IsPrefix(evs, arrivals)
            /\ [size |-> screen_size, pixels |-> pixels]
                 = ApplyAll(start_fb,
                            SelectSeq(evs, LAMBDA e : e.type # "Disconnected"))
            /\ (pc = "ui") =>
                  evs = IF d = 0 THEN arrivals ELSE SubSeq(arrivals, 1, d)

\* a call ended having processed a Resize, a PutPixels and a CopyPixels
C4_Witness ==
    /\ pc = "ui"
    /\ panic = "none"
    /\ \A ty \in MutatingTypes : \E i \in DOMAIN trace : IsEvent(trace[i], ty)
    /\ \E k \in DOMAIN pixels : pixels[k] # Black

\* C5: every EndOfFrame processed is followed, before the next event, by
\* exactly one update request; it is incremental and its rectangle is
\* (0,0,W,H) with (W,H) the extent at that moment, that of the last Resize
\* processed before it in the same drain if there is one.
C5_EndOfFrameRequests ==
    \A i \in DOMAIN trace :
        IsEvent(trace[i], "EndOfFrame") =>
            LET seg == AfterEntry(i)
                reqs == SelectSeq(seg, LAMBDA t : t.k = "request_update")
            IN  /\ Len(reqs) = 1
                /\ reqs[1].incremental
                /\ reqs[1].rect = Rect(0, 0, ExtentAt(i)[1], ExtentAt(i)[2])

\* an EndOfFrame was processed after a Resize of the same drain
C5_Witness ==
    \E i, j \in DOMAIN trace :
        /\ i < j
        /\ IsEvent(trace[i], "Resize")
        /\ IsEvent(trace[j], "EndOfFrame")
        /\ ExtentAt(j) # start_fb.size

\* C6 (as claimed): when a call has ended, every Resize(w,h) it processed was
\* followed by a non-incremental update request over (0,0,w,h).
C6_ResizeRequestsFullUpdate ==
    (pc = "ui" /\ panic = "none") =>
        \A i \in DOMAIN trace :
            IsEvent(trace[i], "Resize") =>
                \E j \in (i + 1)..Len(trace) :
                    /\ trace[j].k = "request_update"
                    /\ ~trace[j].incremental
                    /\ trace[j].rect = Rect(0, 0, trace[i].ev.w, trace[i].ev.h)

\* C7 (as claimed): a failing update request does not abort anything: the
\* process runs on and the session handle is retained.
C7_RequestFailureSwallowed ==
    \A i \in DOMAIN trace :
        (trace[i].k = "request_update" /\ ~trace[i].ok) =>
            /\ panic = "none"
            /\ vnc # NoClient \/ vnc_client # NoClient

\* C8 (as claimed): once a Disconnected event has been processed the status
\* line no longer reads "Connected".
C8_DisconnectSurfaced ==
    SawDisconnected => status_text # "Connected"

\* C9: a step that ends with no session handle held (the step that processes
\* Disconnected, and every step from then until a session is adopted) leaves
\* the pixel buffer and screen_size as they were.
C9_BufferPreserved ==
    [][ (vnc' = NoClient /\ vnc_client' = NoClient) =>
            (pixels' = pixels /\ screen_size' = screen_size) ]_vars

\* a Disconnected was processed and the buffer still holds what was drawn
C9_Witness ==
    /\ SawDisconnected
    /\ state = "Connect"
    /\ \E k \in DOMAIN pixels : pixels[k] # Black

\* how often the call signalled "redraw needed": its update_texture calls
RedrawSignals == CountKind(trace, "update_texture")

LatestOutcome == IF spawned = 0 THEN NoOutcome ELSE chan[spawned]

\* a worker of an attempt that a later connect() call has superseded takes a step
SupersededWorkerStep ==
    \E i \in Workers :
        /\ i # spawned
        /\ wpc[i] \in {"running", "handshake"}
        /\ wpc'[i] # wpc[i]

\* C11: the receiver held is never that of an earlier connect() call; a step
\* of a superseded worker (the one that produces its outcome included)
\* changes neither state, status text, session handle nor framebuffer; and
\* what the first block of a tick does is decided by the outcome of the most
\* recent connect() call alone: its client is adopted, or its failure string
\* shown, or, when it has none waiting, nothing is adopted at all.
C11_OnlyLatestAdopted ==
    [][ /\ vnc_rx' \in {NoRx, spawned'}
        /\ SupersededWorkerStep =>
              UNCHANGED << state, status_text, vnc_client, vnc, screen_size, pixels,
                           screen_texture, vnc_rx >>
        /\ (pc = "poll" /\ pc' # "poll") =>
              CASE LatestOutcome.k = "ok" ->
                      /\ vnc' = LatestOutcome.client
                      /\ vnc'.id = spawned
                      /\ state' = "Viewing"
                [] LatestOutcome.k = "err" ->
                      /\ status_text' = LatestOutcome.msg
                      /\ vnc' = vnc_client
                      /\ UNCHANGED << state, screen_size, pixels >>
                [] OTHER ->
                      /\ vnc' = vnc_client
                      /\ UNCHANGED << state, status_text, screen_size, pixels >> ]_vars

\* the first attempt succeeded, but a second connect() call was made before
\* a tick saw the outcome: the first client is still in the dropped channel
\* and the session held is that of the second attempt
C11_Witness ==
    /\ spawned = 2
    /\ wpc[1] = "done"
    /\ chan[1].k = "ok"
    /\ vnc_rx = NoRx
    /\ state = "Viewing"
    /\ vnc_client.id = 2

\* a worker thread takes a step
WorkerStep ==
    \E i \in Workers : wpc[i] \in {"running", "handshake"} /\ wpc'[i] # wpc[i]

\* C12: a worker that has ended has called send exactly once, on each of its
\* three paths, and one that has not ended has not sent; a channel holds an
\* outcome only after its worker's one send, and the step that removes an
\* outcome from the channel of an attempt clears the receiver, which only
\* connect() sets again, to that of a new attempt: at most one outcome per
\* connect() call is adopted; a step of a worker changes nothing of the engine
\* but its channel.
C12_OneOutcomePerWorker ==
    /\ [](\A i \in Workers :
            /\ sent[i] = IF wpc[i] = "done" THEN 1 ELSE 0
            /\ chan[i].k # "empty" => sent[i] = 1)
    /\ [][ /\ WorkerStep =>
                 UNCHANGED << state, vnc_client, vnc_rx, screen_size, pixels,
                              status_text, screen_texture, fields, pc, vnc, updated,
                              spawned, captured, evq >>
           /\ \A i \in Workers :
                 /\ (chan[i].k # "empty" /\ chan'[i] # chan[i]) =>
                       (vnc_rx = i /\ vnc_rx' = NoRx /\ chan'[i] = NoOutcome)
                 /\ (chan[i].k = "empty" /\ chan'[i] # chan[i]) =>
                       (sent[i] = 0 /\ sent'[i] = 1)
                 /\ (vnc_rx' = i /\ vnc_rx # i) =>
                       (spawned = i - 1 /\ spawned' = i) ]_vars

\* the first worker ended on the TCP failure path and its message was never
\* received; the second ended after the handshake and its client was adopted
C12_Witness ==
    /\ sent[1] = 1
    /\ chan[1] = OutcomeErr(ConnectErrorText)
    /\ sent[2] = 1
    /\ chan[2] = NoOutcome
    /\ vnc_rx = NoRx
    /\ state = "Viewing"
    /\ vnc_client.id = 2

\* the calls a worker makes when it uses the form values f
CallsWith(f) ==
    << CallTcpConnect(f.host, ParsePort(f.port)),
       CallHandshake(f.shared, Pw8(f.password)) >>

\* C13: what a worker holds is what the form held when its connect() call
\* was made and never changes afterwards, whatever is typed into the form; the
\* address it connects to and the shared flag and password it hands to the
\* handshake are computed from those values.
C13_ParametersCaptured ==
    /\ [](\A i \in Workers : used[i] # <<>> => used[i] = CallsWith(captured[i]))
    /\ [][ \A i \in Workers :
              IF spawned' = i /\ spawned = i - 1
              THEN captured'[i] = fields
              ELSE captured'[i] = captured[i] ]_vars

\* a worker has connected and is in the handshake with the values of its
\* connect() call although the form has been changed since
C13_Witness ==
    \E i \in Workers :
        /\ wpc[i] = "handshake"
        /\ Len(used[i]) = 2
        /\ fields.host # captured[i].host
        /\ fields.port # captured[i].port
        /\ fields.shared # captured[i].shared
        /\ used[i][1].host = captured[i].host

\* ------------------------------------------------------------------ claims on the framebuffer engine

\* the call has processed exactly one event so far, of type ty (or was
\* aborted while processing it)
Processed(ty) ==
    /\ trace # <<>>
    /\ IsEvent(trace[1], ty)
    /\ Len(EventsOf(trace)) = 1

\* rectangle r lies inside a framebuffer of the given size
InBounds(r, size) ==
    r.left + r.width <= size[1] /\ r.top + r.height <= size[2]

\* buffer px (sw wide) with the src block, as it is in px, put at dst's origin
SnapshotCopy(px, sw, src, dst) ==
    [k \in 1..Len(px) |->
        LET x == ((k - 1) % sw) - dst.left
            y == ((k - 1) \div sw) - dst.top
        IN  IF x \in 0..(src.width - 1) /\ y \in 0..(src.height - 1)
            THEN px[(src.top + y) * sw + src.left + x + 1]
            ELSE px[k]]

\* C14: a CopyPixels event whose src and dst lie inside the framebuffer and
\* start on different rows (overlapping or not) leaves the whole buffer equal
\* to the buffer before the event with the src block, as it was before the
\* event, put at dst's origin; nothing aborts.
C14_CopySnapshot ==
    Processed("CopyPixels") =>
        LET e == trace[1].ev
            sz == start_fb.size
        IN  (InBounds(e.src, sz) /\ InBounds(e.dst, sz) /\ e.dst.top # e.src.top) =>
                /\ panic = "none"
                /\ pixels = SnapshotCopy(start_fb.pixels, sz[1], e.src, e.dst)

\* the block {0,0,2,2} was copied one row down onto itself: the row below the
\* top row holds the original top row, the next one the original second row
C14_Witness ==
    /\ Processed("CopyPixels")
    /\ panic = "none"
    /\ trace[1].ev = EvCopyPixels(Rect(0, 0, 2, 2), Rect(0, 1, 2, 2))
    /\ LET sw == start_fb.size[1]
       IN  /\ start_fb.size[2] >= 3
           /\ \A x \in 1..2 :
                 /\ pixels[sw + x] = start_fb.pixels[x]
                 /\ pixels[2 * sw + x] = start_fb.pixels[sw + x]
                 /\ pixels[2 * sw + x] # start_fb.pixels[x]

\* C15 (as claimed): a CopyPixels event, whatever its rectangles, aborts
\* nothing: the call goes on and ends in Viewing state with the session held.
C15_CopyNeverPanics ==
    Processed("CopyPixels") =>
        /\ panic = "none"
        /\ state = "Viewing"
        /\ (pc = "ui") => (vnc_client # NoClient)

\* the session whose events the call drains
Session == IF vnc # NoClient THEN vnc ELSE vnc_client

\* the decode of sample number n of a block
SampleColor(bytes, n, format) ==
    LET bpp == format.bits_per_pixel \div 8
    IN  DecodeColor(SampleAt(bytes, n * bpp, bpp, format.big_endian), format)

\* C16 (as claimed): after a PutPixels(rect, bytes) event the buffer cell
\* (rect.top+y)*screen_width + rect.left+x holds the decode of sample number
\* y*rect.width + x, for every (x,y) of the rectangle whose cell is in the
\* buffer and whose sample is complete in bytes (and that no later pixel of
\* the block with a complete sample maps to the same cell).
C16_SampleOrder ==
    (Processed("PutPixels") /\ panic = "none") =>
        LET e == trace[1].ev
            r == e.rect
            f == Session.format
            bpp == f.bits_per_pixel \div 8
            sw == start_fb.size[1]
            Cell(x, y) == (r.top + y) * sw + r.left + x
            Present(x, y) == (y * r.width + x + 1) * bpp <= Len(e.bytes)
        IN  bpp \in {1, 2, 4} =>
              \A x \in 0..(r.width - 1), y \in 0..(r.height - 1) :
                 ( /\ Cell(x, y) < Len(pixels)
                   /\ Present(x, y)
                   /\ \A x2 \in 0..(r.width - 1), y2 \in 0..(r.height - 1) :
                         (y2 * r.width + x2 > y * r.width + x /\ Present(x2, y2))
                            => Cell(x2, y2) # Cell(x, y) )
                 => pixels[Cell(x, y) + 1] = SampleColor(e.bytes, y * r.width + x, f)

\* C17: after a Resize(w,h) a PutPixels event of the same drain, whatever its
\* rectangle (left+width = w exactly, a 1x1 rectangle at left = w, rectangles
\* wider than or below the screen), never indexes outside the buffer and
\* leaves it at w*h entries; with no row number past 65535 nothing aborts.
C17_WriteAfterResize ==
    ( /\ Len(EventsOf(trace)) = 2
      /\ IsEvent(trace[1], "Resize")
      /\ IsEvent(trace[2], "PutPixels") ) =>
        LET w == trace[1].ev.w
            h == trace[1].ev.h
            r == trace[2].ev.rect
        IN  /\ panic # "index out of bounds"
            /\ screen_size = <<w, h>>
            /\ Len(pixels) = w * h
            /\ (r.top + r.height <= U16) => (panic = "none")

\* Resize(2,2), then a 1x1 block at left = 2 (one pixel past the right edge)
\* was processed: no abort, four entries
C17_Witness ==
    /\ Len(EventsOf(trace)) = 2
    /\ trace[1].ev = EvResize(2, 2)
    /\ IsEvent(trace[2], "PutPixels")
    /\ trace[2].ev.rect = Rect(2, 0, 1, 1)
    /\ panic = "none"
    /\ Len(pixels) = 4
    /\ \E k \in DOMAIN pixels : pixels[k] # Black

\* C18: the pixel buffer always has screen_size.width * screen_size.height
\* entries; the step that processes Resize(w,h) and the step that adopts a
\* session of size (w,h) leave screen_size = (w,h) and a buffer of w*h
\* pixels, all black.
C18_BufferMatchesExtent ==
    /\ [](Len(pixels) = screen_size[1] * screen_size[2])
    /\ [][ /\ (pc = "drain" /\ evq # <<>> /\ Head(evq).type = "Resize"
               /\ trace' # trace) =>
                 /\ screen_size' = << Head(evq).w, Head(evq).h >>
                 /\ Len(pixels') = Head(evq).w * Head(evq).h
                 /\ \A k \in DOMAIN pixels' : pixels'[k] = Black
           /\ (state = "Connect" /\ state' = "Viewing") =>
                 /\ screen_size' = chan[vnc_rx].client.size
                 /\ Len(pixels') = screen_size'[1] * screen_size'[2]
                 /\ \A k \in DOMAIN pixels' : pixels'[k] = Black ]_vars

\* a Resize was processed after a PutPixels of the same drain had drawn into
\* the 2x1 buffer: the buffer is the new size and black
C18_Witness ==
    /\ start_fb.size = <<2, 1>>
    /\ Len(EventsOf(trace)) = 2
    /\ IsEvent(trace[1], "PutPixels")
    /\ IsEvent(trace[2], "Resize")
    /\ screen_size = <<1, 2>>
    /\ Len(pixels) = 2
    /\ \A k \in DOMAIN pixels : pixels[k] = Black

\* C19 (as claimed): a PutPixels event in a session whose sample width is not
\* 1, 2 or 4 bytes leaves the framebuffer as it was, and the session goes on.
C19_UnsupportedWidthSkipped ==
    (Processed("PutPixels") /\ Session.format.bits_per_pixel \div 8 \notin {1, 2, 4}) =>
        /\ panic = "none"
        /\ state = "Viewing"
        /\ pixels = start_fb.pixels

\* C20: a PutPixels event with a sample width of 1, 2 or 4 bytes never reads
\* past the end of its bytes, whatever their number, and aborts nothing (no
\* row number past 65535); for a rectangle inside the framebuffer the pixels
\* whose sample is complete (the first Len(bytes) div bpp in row-major order)
\* hold the decode of their sample and every other pixel of the buffer is as
\* it was.
C20_ShortBlock ==
    Processed("PutPixels") =>
        LET e == trace[1].ev
            r == e.rect
            f == Session.format
            bpp == f.bits_per_pixel \div 8
            sw == start_fb.size[1]
        IN  bpp \in {1, 2, 4} =>
              /\ panic # "index out of bounds"
              /\ (r.top + r.height <= U16) => (panic = "none")
              /\ InBounds(r, start_fb.size) =>
                    \A k \in DOMAIN pixels :
                        LET x == ((k - 1) % sw) - r.left
                            y == ((k - 1) \div sw) - r.top
                            n == y * r.width + x
                        IN  pixels[k] =
                              IF /\ x \in 0..(r.width - 1)
                                 /\ y \in 0..(r.height - 1)
                                 /\ n < Len(e.bytes) \div bpp
                              THEN SampleColor(e.bytes, n, f)
                              ELSE start_fb.pixels[k]

\* a 2x2 block of 16-bit samples came with 7 bytes: three pixels were
\* written, the fourth was left
C20_Witness ==
    /\ Processed("PutPixels")
    /\ panic = "none"
    /\ Session.format = Fmt565
    /\ trace[1].ev = EvPutPixels(Rect(0, 0, 2, 2), Bytes(7))
    /\ \A k \in 1..3 : pixels[k] = SampleColor(Bytes(7), k - 1, Fmt565)
    /\ \A k \in 1..3 : pixels[k] # start_fb.pixels[k]
    /\ pixels[4] = start_fb.pixels[4]

\* ------------------------------------------------------------------ claims on sample decoding

\* bit n of a u32 sample
BitOf(val, n) ==
    IF n >= 32 THEN 0
    ELSE IF n >= 16 THEN (val.hi \div (2 ^ (n - 16))) % 2
    ELSE (val.lo \div (2 ^ n)) % 2

\* (val >> shift) & max, bit by bit from bit k of the mask upwards
RECURSIVE MaskedBits(_, _, _, _)
MaskedBits(val, shift, max, k) ==
    IF k > 15 THEN 0
    ELSE BitOf(val, shift + k) * ((max \div (2 ^ k)) % 2) * (2 ^ k)
         + MaskedBits(val, shift, max, k + 1)

\* the channel value the decoding rule gives, as a number (no 8-bit cast)
ExpectedChannel(val, shift, max) ==
    LET raw == MaskedBits(val, shift, max, 0)
    IN  IF max = 255 THEN raw
        ELSE IF max = 0 THEN 0
        ELSE (raw * 255) \div max

\* the one sample of the event the call has processed
SampleDecoded ==
    LET f == Session.format
    IN  SampleAt(trace[1].ev.bytes, 0, f.bits_per_pixel \div 8, f.big_endian)

\* C21: every channel of a decoded pixel is (sample >> shift) & max when
\* max is 255, 0 when max is 0 and floor(((sample >> shift) & max) * 255 / max)
\* otherwise; that number lies in 0..255, so the 8-bit cast truncates
\* nothing; 16-bit little-endian 5-6-5 bytes [0x00, 0xF8] decode to (255,0,0).
C21_ChannelDecode ==
    (Processed("PutPixels") /\ panic = "none") =>
        LET f == Session.format
            v == SampleDecoded
            exp == << ExpectedChannel(v, f.red_shift, f.red_max),
                      ExpectedChannel(v, f.green_shift, f.green_max),
                      ExpectedChannel(v, f.blue_shift, f.blue_max) >>
        IN  /\ \A c \in 1..3 : exp[c] \in 0..255
            /\ pixels[1] = exp
            /\ (f = Fmt565LE /\ trace[1].ev.bytes = <<0, 248>>)
                  => pixels[1] = <<255, 0, 0>>

\* the 5-6-5 example of the claim has been decoded
C21_Witness ==
    /\ Processed("PutPixels")
    /\ panic = "none"
    /\ Session.format = Fmt565LE
    /\ trace[1].ev.bytes = <<0, 248>>
    /\ pixels[1] = <<255, 0, 0>>

\* C22: a channel with max 255 at shift 0 decodes to the input byte that
\* holds the least significant 8 bits of the sample in the declared byte
\* order: the last byte when big-endian, the first when little-endian, for
\* 8, 16 and 32 bits per pixel.
C22_ByteOrder ==
    (Processed("PutPixels") /\ panic = "none") =>
        LET f == Session.format
            bytes == trace[1].ev.bytes
            low == IF f.big_endian THEN bytes[Len(bytes)] ELSE bytes[1]
        IN  /\ (f.red_shift = 0 /\ f.red_max = 255) => pixels[1][1] = low
            /\ (f.green_shift = 0 /\ f.green_max = 255) => pixels[1][2] = low
            /\ (f.blue_shift = 0 /\ f.blue_max = 255) => pixels[1][3] = low

\* a 32-bit big-endian sample whose first and last bytes differ has been
\* decoded with the red channel at shift 0, max 255
C22_Witness ==
    /\ Processed("PutPixels")
    /\ panic = "none"
    /\ Session.format.bits_per_pixel = 32
    /\ Session.format.big_endian
    /\ Session.format.red_shift = 0
    /\ Session.format.red_max = 255
    /\ trace[1].ev.bytes[1] # trace[1].ev.bytes[4]
    /\ pixels[1][1] = trace[1].ev.bytes[4]

\* the channels of the session's format as <<shift, max, index>>
ChannelsOf(f) ==
    { <<f.red_shift, f.red_max, 1>>, <<f.green_shift, f.green_max, 2>>,
      <<f.blue_shift, f.blue_max, 3>> }

\* C23: for a channel max other than 255 and greater than 0 the rescaling
\* raw -> raw*255/max is non-decreasing over 0..max (no smaller raw value
\* rescales above the decoded channel, no larger one below it), takes 0 to
\* 0 and max to 255.
C23_RescaleMonotonic ==
    (Processed("PutPixels") /\ panic = "none") =>
        \A ch \in ChannelsOf(Session.format) :
            (ch[2] # 255 /\ ch[2] > 0) =>
                LET raw == RawChannel(SampleDecoded, ch[1], ch[2])
                IN  /\ pixels[1][ch[3]] = Rescale(raw, ch[2])
                    /\ \A r2 \in 0..ch[2] :
                          /\ (r2 <= raw) => Rescale(r2, ch[2]) <= pixels[1][ch[3]]
                          /\ (r2 >= raw) => Rescale(r2, ch[2]) >= pixels[1][ch[3]]
                    /\ Rescale(0, ch[2]) = 0
                    /\ Rescale(ch[2], ch[2]) = 255

\* a red channel with max 31 has been decoded from a raw value strictly
\* between 0 and 31
C23_Witness ==
    /\ Processed("PutPixels")
    /\ panic = "none"
    /\ Session.format.red_max = 31
    /\ RawChannel(SampleDecoded, Session.format.red_shift, 31) \in 1..30
    /\ pixels[1][1] \in 1..254

\* ------------------------------------------------------------------ claims on input and options

\* what the step appended to the trace of the update() call
Added ==
    IF Len(trace') >= Len(trace) /\ SubSeq(trace', 1, Len(trace)) = trace
    THEN SubSeq(trace', Len(trace) + 1, Len(trace'))
    ELSE << >>

\* the entries of a trace that are messages of the given kinds
RECURSIVE Select(_, _)
Select(tr, kinds) ==
    IF tr = << >> THEN << >>
    ELSE IF Head(tr).k \in kinds THEN << Head(tr) >> \o Select(Tail(tr), kinds)
    ELSE Select(Tail(tr), kinds)

InputKinds == {"send_pointer_event", "send_key_event"}

\* the step is a call of handle_input
HandleInputStep ==
    /\ Added # << >>
    /\ Added[1].k = "widget"
    /\ Added[1].part = "handle_input"

\* C24: a call of handle_input on a connected session that is not view-only
\* sends a pointer message exactly when the pointer hovers and the scaled
\* position or the button mask differs from (last_pointer_pos, last_buttons);
\* the message carries the scaled position and the mask, and these are the
\* throttle state afterwards; without a message the throttle state is
\* unchanged; no other step sends a pointer message or changes the throttle
\* state, and a pointer message never repeats the previous one of its session.
C24_PointerThrottle ==
    /\ [][ /\ (HandleInputStep /\ ~view_only /\ vnc_client # NoClient) =>
                 LET in == Added[1]
                     ptrs == Select(Added, {"send_pointer_event"})
                     pos == ScalePos(in.hover, screen_size)
                     differs == /\ in.hover # NoHover
                                /\ (last_pointer_pos # pos \/ last_buttons # in.buttons)
                 IN  /\ Len(ptrs) = IF differs THEN 1 ELSE 0
                     /\ differs =>
                           /\ <<ptrs[1].x, ptrs[1].y>> = pos
                           /\ ptrs[1].buttons = in.buttons
                           /\ panic' = "none" =>
                                 (last_pointer_pos' = pos /\ last_buttons' = in.buttons)
                           /\ (last_sent.id = vnc_client.id) =>
                                 <<ptrs[1].x, ptrs[1].y, ptrs[1].buttons>>
                                    # <<last_sent.x, last_sent.y, last_sent.buttons>>
                     /\ ~differs => UNCHANGED << last_pointer_pos, last_buttons >>
           /\ (~HandleInputStep \/ view_only \/ vnc_client = NoClient) =>
                 /\ Select(Added, {"send_pointer_event"}) = << >>
                 /\ panic' = "none" => UNCHANGED << last_pointer_pos, last_buttons >> ]_vars
    /\ [](last_sent # NoSent =>
             /\ last_pointer_pos = <<last_sent.x, last_sent.y>>
             /\ last_buttons = last_sent.buttons)

\* the pointer rests where it was, buttons as before: the call has sent no
\* pointer message although the session is connected and not view-only
C24_Witness ==
    /\ UiStage = 2
    /\ panic = "none"
    /\ ~view_only
    /\ vnc_client # NoClient
    /\ last_sent # NoSent
    /\ \E i \in 1..Len(trace) :
          /\ trace[i].k = "widget"
          /\ trace[i].part = "handle_input"
          /\ trace[i].hover # NoHover
          /\ ScalePos(trace[i].hover, screen_size) = last_pointer_pos
          /\ trace[i].buttons = last_buttons
    /\ Select(trace, {"send_pointer_event"}) = << >>

\* C25 (as claimed): while view_only is set no step sends a pointer or key
\* message to the session.
C25_ViewOnlySilent ==
    [][ view_only => Select(Added, InputKinds) = << >> ]_vars

\* C26 (as claimed): a failing send of a pointer or key message in
\* handle_input is swallowed: the process goes on, the state is Viewing and
\* the session handle is retained.
C26_InputSendFailureSwallowed ==
    (/\ UiStage >= 2
     /\ \E i \in 1..Len(trace) : trace[i].k \in InputKinds /\ ~trace[i].ok)
        => (panic = "none" /\ state = "Viewing" /\ vnc_client # NoClient)

\* the number of key messages an event of the frame stands for
KeyWidth(e) ==
    CASE e.type = "Key" -> IF e.keysym # NoKeysym THEN 1 ELSE 0
      [] e.type = "Text" -> 2 * Len(e.chars)
      [] OTHER -> 0

\* the number of key messages the events before event j stand for
RECURSIVE KeyOffset(_, _)
KeyOffset(events, j) ==
    IF j <= 1 THEN 0 ELSE KeyOffset(events, j - 1) + KeyWidth(events[j - 1])

\* C27: a call of handle_input on a connected session that is not view-only
\* sends, in event order, one key message (pressed, keysym) for every Key
\* event with a key symbol, none for one without, and for every character of
\* a Text event a press followed at once by a release of 0x01000000 + code
\* point; nothing else, throttled or not.
C27_KeysForwarded ==
    (UiStage = 2 /\ panic = "none" /\ ~view_only /\ vnc_client # NoClient) =>
        \A i \in 1..Len(trace) :
            (trace[i].k = "widget" /\ trace[i].part = "handle_input") =>
                LET events == trace[i].events
                    keys == Select(SubSeq(trace, i + 1, Len(trace)), {"send_key_event"})
                    Is(n, down, keysym) ==
                        keys[n].down = down /\ keys[n].keysym = keysym
                IN  /\ Len(keys) = KeyOffset(events, Len(events) + 1)
                    /\ \A j \in 1..Len(events) :
                          LET e == events[j]
                              at == KeyOffset(events, j)
                          IN  /\ (e.type = "Key" /\ e.keysym # NoKeysym) =>
                                    Is(at + 1, e.pressed, e.keysym)
                              /\ (e.type = "Text") =>
                                    \A c \in 1..Len(e.chars) :
                                        /\ Is(at + 2 * c - 1, TRUE, 16777216 + e.chars[c])
                                        /\ Is(at + 2 * c, FALSE, 16777216 + e.chars[c])

\* the frame held a key press, another event, text and a key release, and
\* four key messages have been sent
C27_Witness ==
    /\ UiStage = 2
    /\ panic = "none"
    /\ ~view_only
    /\ vnc_client # NoClient
    /\ \E i \in 1..Len(trace) :
          /\ trace[i].k = "widget"
          /\ trace[i].part = "handle_input"
          /\ Len(trace[i].events) = 4
    /\ Len(Select(trace, {"send_key_event"})) = 4

\* the step is a click on the Refresh button
RefreshStep ==
    /\ Added # << >>
    /\ Added[1] = TWidget("toolbar", "refresh")

\* C28: a click on Refresh issues one non-incremental update request over
\* (0, 0, screen width, screen height) and changes neither the framebuffer
\* nor the screen size; as long as no pixel event arrives, whatever the
\* number of refreshes, the framebuffer stays as it was.
C28_RefreshKeepsBuffer ==
    /\ [][ RefreshStep =>
              /\ Len(Added) = 2
              /\ Added[2].k = "request_update"
              /\ Added[2].rect = Rect(0, 0, screen_size[1], screen_size[2])
              /\ ~Added[2].incremental
              /\ UNCHANGED << pixels, screen_size, screen_texture >> ]_vars
    /\ [](pixels = Marker(2, 1) /\ screen_size = <<2, 1>>)

\* a refresh has been requested in a frame that began with the framebuffer
\* drawn, and the framebuffer is still the drawn one
C28_Witness ==
    /\ \E i \in 1..Len(trace) :
          /\ trace[i] = TWidget("toolbar", "refresh")
          /\ i < Len(trace)
          /\ trace[i + 1].k = "request_update"
          /\ ~trace[i + 1].incremental
    /\ pixels = Marker(2, 1)
    /\ panic = "none"

\* C29 (as claimed): when Apply has sent a new encoding list to the session,
\* a non-incremental update request over the whole extent follows it.
C29_ApplyRequestsFullUpdate ==
    \A i \in 1..Len(trace) :
        (trace[i] = TWidget("options", "apply") /\ i < Len(trace)) =>
            /\ i + 2 <= Len(trace)
            /\ trace[i + 2].k = "request_update"
            /\ ~trace[i + 2].incremental
            /\ trace[i + 2].rect = Rect(0, 0, screen_size[1], screen_size[2])

\* the encodings that carry pixels, besides Raw
PixelEncodings == {"Zrle", "Hextile", "CopyRect"}

\* C30: every encoding list sent to the session, on connect and on Apply
\* for every preferred encoding and CopyRect allowance, contains Raw, and
\* every other pixel encoding of the list (ZRLE, Hextile, CopyRect) comes
\* before Raw.
C30_RawLast ==
    \A i \in 1..Len(trace) :
        (trace[i].k = "set_encodings") =>
            LET encs == trace[i].encs
            IN  /\ \E r \in 1..Len(encs) : encs[r] = "Raw"
                /\ \A r, q \in 1..Len(encs) :
                      (encs[r] = "Raw" /\ encs[q] \in PixelEncodings) => q < r

\* Apply has sent a list with Hextile and CopyRect in a session whose
\* connect sent the fixed list
C30_Witness ==
    /\ state = "Viewing"
    /\ \E i \in 1..Len(trace) :
          /\ trace[i].k = "set_encodings"
          /\ trace[i].encs = << "Hextile", "CopyRect", "Raw", "Cursor", "DesktopSize" >>
    /\ \E i \in 1..Len(trace) :
          /\ trace[i].k = "set_encodings"
          /\ trace[i].encs = ConnectEncodings

\* ------------------------------------------------------------------ claims on same-row copies and out-of-range rectangles

\* src and dst start on the same row and their column ranges share a column
SameRowOverlap(src, dst) ==
    /\ dst.top = src.top
    /\ src.width > 0
    /\ src.height > 0
    /\ dst.left < src.left + src.width
    /\ src.left < dst.left + src.width

\* C31 (as claimed): a CopyPixels event whose src and dst lie inside the
\* framebuffer, start on the same row and overlap in columns leaves the buffer
\* equal to the buffer before the event with the src block, as it was before
\* the event, put at dst's origin, whether dst is left or right of src.
C31_SameRowSnapshot ==
    Processed("CopyPixels") =>
        LET e == trace[1].ev
            sz == start_fb.size
        IN  (InBounds(e.src, sz) /\ InBounds(e.dst, sz) /\ SameRowOverlap(e.src, e.dst)) =>
                /\ panic = "none"
                /\ pixels = SnapshotCopy(start_fb.pixels, sz[1], e.src, e.dst)

\* cell k (1-based) of a buffer sw wide lies in a column and row of rect
InRect(k, sw, rect) ==
    /\ sw > 0
    /\ ((k - 1) % sw) \in rect.left..(rect.left + rect.width - 1)
    /\ ((k - 1) \div sw) \in rect.top..(rect.top + rect.height - 1)

\* C36 (as claimed): a PutPixels event changes only buffer cells whose column
\* and row lie inside its rectangle; the columns of a rectangle that reaches
\* past the right edge of the screen are skipped, none of them lands at the
\* beginning of the following row. (Stated for rectangles that end at or
\* before row 65535; C37 is about the others.)
C36_WriteInsideRect ==
    (Processed("PutPixels") /\ panic = "none") =>
        LET rect == trace[1].ev.rect
            sw == start_fb.size[1]
        IN  rect.top + rect.height <= U16 =>
                \A k \in 1..Len(pixels) :
                    ~InRect(k, sw, rect) => pixels[k] = start_fb.pixels[k]

\* C37 (as claimed): a PutPixels event whose rectangle runs past row 65535
\* (rect.top + rect.height > 65536) has those rows skipped: the call is not
\* aborted and no row at the top of the buffer is written. (The buffers here
\* have fewer than 65535 rows, so the rows before the overflow are out of
\* range as well and the buffer stays as it was.)
C37_RowSumNoOverflow ==
    Processed("PutPixels") =>
        LET rect == trace[1].ev.rect
        IN  (rect.top + rect.height > U16 /\ start_fb.size[2] < U16 - 1) =>
                /\ panic = "none"
                /\ pixels = start_fb.pixels

\* ------------------------------------------------------------------ claims on the session's life

\* the UI thread is between two calls of update()
TickBoundary == pc = "poll"

\* C34: between two ticks the state is Viewing exactly when a session handle
\* is held, and a pending connection receiver exists only in Connect state,
\* whatever connects, outcomes, drains and disconnects came before.
C34_StateMatchesHandles ==
    TickBoundary =>
        /\ (state = "Viewing") <=> (vnc_client # NoClient)
        /\ (vnc_rx # NoRx) => (state = "Connect")

\* between two ticks of the second session, opened after the first one was
\* disconnected: Viewing, the handle held, no receiver
C34_Witness ==
    /\ TickBoundary
    /\ panic = "none"
    /\ state = "Viewing"
    /\ vnc_client # NoClient
    /\ vnc_client.id = 2
    /\ vnc_rx = NoRx

\* what the step wrote into the trace: the entries appended to it or, when
\* the step began a new call, the whole new trace
Written ==
    IF trace' = trace THEN << >>
    ELSE IF Len(trace') >= Len(trace) /\ SubSeq(trace', 1, Len(trace)) = trace
    THEN SubSeq(trace', Len(trace) + 1, Len(trace'))
    ELSE trace'

\* C40 (as claimed): an encoding list sent to the session, on connect or by
\* Apply, contains CopyRect only if allow_copyrect is set when it is sent.
C40_CopyRectOnlyIfAllowed ==
    [][\A i \in 1..Len(Written) :
          (/\ Written[i].k = "set_encodings"
           /\ Written[i].ok
           /\ \E r \in 1..Len(Written[i].encs) : Written[i].encs[r] = "CopyRect")
              => allow_copyrect]_vars

\* messages written to a session
SendKinds == {"request_update", "send_pointer_event", "send_key_event", "set_encodings"}

\* a session is held, by the application or by the running call
Held == vnc_client # NoClient \/ vnc # NoClient

\* the step processes a Disconnected event
DisconnectedStep ==
    \E i \in 1..Len(Written) : IsEvent(Written[i], "Disconnected")

\* the step adopts the session the latest connect opened
AdoptStep ==
    /\ vnc_rx # NoRx
    /\ vnc_rx = spawned
    /\ chan[vnc_rx].k = "ok"
    /\ vnc' = chan[vnc_rx].client
    /\ vnc'.id = spawned

\* C35: the step that processes a Disconnected event writes no message and
\* leaves no session held; from then on a session is held again only by
\* adopting the outcome of a later successful connect, and update requests,
\* pointer messages, key messages and encoding lists are written only while
\* a session is held (or in the adopting step, to the new session).
C35_SilentAfterDisconnect ==
    [][/\ DisconnectedStep =>
             /\ Select(Written, SendKinds) = << >>
             /\ ~Held'
       /\ (~Held /\ Held') => AdoptStep
       /\ (Select(Written, SendKinds) # << >>) => (Held \/ AdoptStep)]_vars

\* the first session received a pointer message, its Disconnected event has
\* been processed in this tick, and no session is held
C35_Witness ==
    /\ \E i \in 1..Len(trace) : IsEvent(trace[i], "Disconnected")
    /\ last_sent # NoSent
    /\ last_sent.id = 1
    /\ ~Held
    /\ state = "Connect"
    /\ pc = "ui"

\* C38 (as claimed): a call of handle_input with the pointer over the image,
\* not view-only, on a session that has not been sent a pointer message yet,
\* sends one, whatever was sent to an earlier session.
C38_FirstSampleSent ==
    [][(/\ HandleInputStep
        /\ Added[1].hover # NoHover
        /\ ~view_only
        /\ vnc_client # NoClient
        /\ last_sent.id # vnc_client.id)
          => Select(Added, {"send_pointer_event"}) # << >>]_vars

\* ------------------------------------------------------------------ claims on request pacing

\* EndOfFrame events waiting in the session's event channel
WaitingFrames == Cardinality({i \in 1..Len(evq) : evq[i].type = "EndOfFrame"})

\* C32 (as claimed): with a paced server, at most one update request is
\* unanswered at any time while a session is held, whatever EndOfFrame events
\* and refreshes came before.
C32_OneOutstanding ==
    (server.paced /\ Held) => server.owed <= 1

\* C33: between two ticks of a session with a paced server, the update
\* requests sent in the session are at least one more than the EndOfFrame
\* events processed in it. (Requests sent = frames answered + server.owed and
\* frames answered = EndOfFrame events processed + those still waiting, so
\* the difference is server.owed + WaitingFrames.)
C33_RequestAhead ==
    (TickBoundary /\ panic = "none" /\ state = "Viewing" /\ server.paced) =>
        server.owed + WaitingFrames >= 1

\* between two ticks, after two frames were answered and both EndOfFrame
\* events were processed: the request for the third is with the server
C33_Witness ==
    /\ TickBoundary
    /\ panic = "none"
    /\ state = "Viewing"
    /\ server.paced
    /\ delivered = 2
    /\ evq = << >>
    /\ server.owed = 1

\* ------------------------------------------------------------------ claims on resolving a connection attempt

\* the receiver is cleared and the attempt's result shows: Viewing with
\* "Connected", or one of the worker's failure strings
Resolved ==
    /\ vnc_rx = NoRx
    /\ \/ state = "Viewing" /\ status_text = "Connected"
       \/ status_text \in {ConnectErrorText, InitErrorText}

\* C39: when the worker's blocking calls return and ticks keep running, an
\* attempt whose receiver is held leads to a tick that clears the receiver
\* and either enters Viewing with "Connected" or shows the failure string,
\* unless a later connect() superseded it. (Ticks stop running when the
\* adopting tick is aborted by a failing set_encodings or request_update;
\* the process is gone then, which C7 is about.)
C39_AttemptResolves ==
    \A i \in Workers :
        (vnc_rx = i) ~> (Resolved \/ spawned > i \/ panic # "none")

\* the second attempt has been resolved by its failure string
C39_Witness ==
    /\ spawned = 2
    /\ sent[2] = 1
    /\ vnc_rx = NoRx
    /\ status_text = InitErrorText
    /\ state = "Connect"
    /\ panic = "none"

====
